---- MODULE Spec2Model ----
(***************************************************************************)
(* TRIDENT incremental triage core: AudioBuffer, the weighted metric       *)
(* averages, the 3D decision matrix (TriageEngine) and LiveCallSession     *)
(* (backend/live_processor.py, backend/triage_engine.py).                  *)
(*                                                                         *)
(* Units.  Durations are counted in ticks of half a second (8000 samples   *)
(* at 16 kHz), so 1.5 s = 3, 2.0 s = 4 and 30.0 s = 60.  Scores are        *)
(* counted in hundredths, so 0.70 = 70.  A weighted average is an exact    *)
(* fraction <<numerator, denominator>> of hundredths in lowest terms; the  *)
(* rounding of Python floats is not modelled.  Text is a sequence of       *)
(* one-character strings.                                                  *)
(***************************************************************************)
EXTENDS Integers, Sequences, FiniteSets, TLC

VARIABLES
    \* AudioBuffer
    buffer,             \* the buffered chunks, in order: [id, n, loud]
    total_duration,     \* ticks
    last_voice_time,    \* ticks
    \* LiveCallSession
    is_active,
    full_transcript,
    confidence_scores,  \* sequence of <<confidence, duration>>
    distress_scores,    \* sequence of <<distress, duration>>
    content_score,
    latest_confidence,
    latest_distress,
    current_triage,
    chunk_count,
    triage_engine,      \* "injected" or "none" (the optional constructor argument)
    \* the coroutine running process_buffer
    pc,                 \* "idle", or the provider call it is suspended in
    caller,             \* who called process_buffer: "chunk" or "finalize"
    audio,              \* process_buffer's local: the snapshot get_audio() returned
    asr_result,         \* process_buffer's local
    bio_result,         \* process_buffer's local
    at_entry,           \* history: the metrics as they were when the cycle in flight began
    \* environment
    ws_connected,       \* websocket.client_state is CONNECTED
    updates,            \* the send_update calls of the current (or last) method call
    db,                 \* rows of live_calls
    returned,           \* what the finalize calls returned, in order
    \* history
    last_call,          \* the last method called on the session and its argument
    step_raised,        \* the step that raised in the current or last cycle
    cycles_started,     \* cycles that reached processing_started
    completed,          \* provider results of the cycles that reached clear()
    db_attempts,        \* _save_to_database calls
    \* inputs of the pure functions under test
    t_in, t_out,        \* decision matrix: arguments and result
    wm_samples, wm_avg, \* weighted average: the (value, weight) pairs and the results
    \* handle_live_call
    handler,            \* where the handler coroutine is: "none" when the session is
                        \* driven directly, else "receiving" (the loop), "failing"
                        \* (the loop, at receive_bytes on a transport on which it
                        \* raises on every call), "reporting" (the loop's except
                        \* branch on that transport), "finally" (before finalize),
                        \* "ending" (after it is called), "ended"
    inbox,              \* frames the client has sent and receive_bytes has not returned
    stream,             \* every send_update call of the handler's session, in order
    \* a second session of the same process
    focus,              \* the session the session variables above describe: 1 or 2
    other,              \* the fields of the session that is not in focus
    \* the ASRService objects of the process and the calls made on them
    startup,            \* "pending" until main.py's startup_event has run, then "done"
    model,              \* per ASRService object: self.model, "None" or "loaded"
    processor,          \* per ASRService object: self.processor, "None" or "loaded"
    asr_service,        \* per session: the object self.asr_service refers to, or "None"
    worker,             \* per session: where its worker thread is in
                        \* transcribe_with_confidence, "idle" when it runs none
    asr_out,            \* per session: how its last transcription call ended
    calls,              \* history, per session: transcription calls made
    load_count,         \* history, per ASRService object: Whisper models loaded
    \* the batch endpoint /api/analyze
    outputs,            \* what the three providers return for the uploaded audio
    analyzed            \* what analyze_audio returned for it

bufferVars == <<buffer, total_duration, last_voice_time>>
metricVars == <<full_transcript, confidence_scores, distress_scores, content_score,
                latest_confidence, latest_distress, current_triage>>
localVars == <<audio, asr_result, bio_result, at_entry>>
cycleVars == <<pc, caller, localVars>>
storeVars == <<db, db_attempts, returned>>
historyVars == <<last_call, step_raised, cycles_started, completed>>
sessionVars == <<bufferVars, metricVars, cycleVars, storeVars, historyVars, is_active,
                 chunk_count, triage_engine, ws_connected, updates>>
pureVars == <<t_in, t_out, wm_samples, wm_avg>>
hostVars == <<handler, inbox, stream>>
asrVars == <<startup, model, processor, asr_service, worker, asr_out, calls, load_count>>
batchVars == <<outputs, analyzed>>
\* the process outside the session in focus: the other session, the ASR objects,
\* the batch endpoint
pairVars == <<focus, other, asrVars, batchVars>>
vars == <<sessionVars, pureVars, hostVars, pairVars>>

\* Python's None, where the other values are records
NULL == [none |-> TRUE]

----------------------------------------------------------------------------
\* Bounds of the model

MaxChunks == 3        \* process_audio_chunk calls in one run
MaxCycles == 2        \* processing cycles in one run
MaxFinalize == 2      \* finalize calls in one run
MaxSamples == 3       \* samples recorded by the weighted-average harness
MaxInbox == 1         \* frames sent by the client and not yet received
MaxReceiveErrors == 1 \* frames on which receive_bytes raises, in one run
MaxPairChunks == 1    \* process_audio_chunk calls per session when two sessions run
MaxPairFinalize == 1  \* finalize calls per session when two sessions run
MaxTranscriptions == 2 \* transcription calls per session on the ASR objects

\* Program constants (in the model's units)

SilenceDuration == 3        \* self.silence_duration = 1.5
OverflowDuration == 60      \* self.total_duration >= 30.0
FinalMinDuration == 4       \* get_duration() > 2.0
MinTranscriptLen == 5       \* len(self.full_transcript.strip()) >= 5
CONFIDENCE_THRESHOLD == 70
DISTRESS_THRESHOLD == 50
CONTENT_THRESHOLD == 40

----------------------------------------------------------------------------
\* Exact fractions

RECURSIVE GCD(_, _)
GCD(a, b) == IF b = 0 THEN a ELSE GCD(b, a % b)

Frac(n, d) == IF n = 0 THEN <<0, 1>> ELSE <<n \div GCD(n, d), d \div GCD(n, d)>>

FracGE(f, k) == f[1] >= k * f[2]
FracGT(f, k) == f[1] > k * f[2]

RECURSIVE SumWeights(_)
SumWeights(scores) ==
    IF scores = <<>> THEN 0 ELSE Head(scores)[2] + SumWeights(Tail(scores))

RECURSIVE SumWeighted(_)
SumWeighted(scores) ==
    IF scores = <<>> THEN 0
    ELSE Head(scores)[1] * Head(scores)[2] + SumWeighted(Tail(scores))

\* LiveCallSession._get_weighted_average_confidence
GetWeightedAverageConfidence(scores) ==
    IF scores = <<>> THEN Frac(0, 1)
    ELSE IF SumWeights(scores) = 0 THEN Frac(0, 1)
    ELSE Frac(SumWeighted(scores), SumWeights(scores))

\* mutant: the plain mean of the values, the durations unused
UnweightedAverage(scores) ==
    IF scores = <<>> THEN Frac(0, 1)
    ELSE Frac(SumWeighted([i \in 1..Len(scores) |-> <<scores[i][1], 1>>]), Len(scores))

\* LiveCallSession._get_weighted_average_distress
GetWeightedAverageDistress(scores) ==
    IF scores = <<>> THEN Frac(0, 1)
    ELSE IF SumWeights(scores) = 0 THEN Frac(0, 1)
    ELSE Frac(SumWeighted(scores), SumWeights(scores))

----------------------------------------------------------------------------
\* Text

IsSpace(c) == c = " "

RECURSIVE LStrip(_)
LStrip(s) == IF s # <<>> /\ IsSpace(Head(s)) THEN LStrip(Tail(s)) ELSE s

RECURSIVE RStrip(_)
RStrip(s) ==
    IF s # <<>> /\ IsSpace(s[Len(s)]) THEN RStrip(SubSeq(s, 1, Len(s) - 1)) ELSE s

\* str.strip()
Strip(s) == RStrip(LStrip(s))

\* mutant: the fragment replaces the transcript
AppendTranscriptReplacing(full, chunk) ==
    IF chunk # <<>> THEN chunk ELSE full

\* full_transcript after a cycle's fragment (already stripped) is appended
AppendTranscript(full, chunk) ==
    IF chunk # <<>>
    THEN IF full # <<>> THEN full \o <<" ">> \o chunk ELSE chunk
    ELSE full

\* mutant: the extractor is called on any transcript that is not empty
TranscriptReadyAnyLength(full) == full # <<>>

\* the condition under which the cycle calls the entity extractor
TranscriptReady(full) == full # <<>> /\ Len(Strip(full)) >= MinTranscriptLen

----------------------------------------------------------------------------
\* TriageEngine

\* mutant: confidence compared with > instead of >=
HighConfidenceStrict(confidence) == FracGT(confidence, CONFIDENCE_THRESHOLD)

HighConfidence(confidence) == FracGE(confidence, CONFIDENCE_THRESHOLD)
HighContent(content) == FracGT(content, CONTENT_THRESHOLD)
HighConcern(distress) == FracGT(distress, DISTRESS_THRESHOLD)

Decision(q, p, f, r) ==
    [queue |-> q, priority_level |-> p, flag_audio_review |-> f, reasoning |-> r]

\* mutant: the content score is not used (its default 0.0 is always low)
PrioritizeCallWithoutContent(confidence, distress_score, content) ==
    IF ~HighConfidence(confidence) /\ HighConcern(distress_score)
        THEN Decision("Q1-IMMEDIATE", 1, TRUE, "case 1: hero scenario")
    ELSE IF HighConfidence(confidence) /\ HighConcern(distress_score)
        THEN Decision("Q3-MONITOR", 3, FALSE, "case 4: clear, distressed")
    ELSE IF ~HighConfidence(confidence)
        THEN Decision("Q5-REVIEW", 5, TRUE, "case 7: unclear, no urgency")
    ELSE Decision("Q5-ROUTINE", 5, FALSE, "case 8: routine")

\* mutant: case 7 (nothing urgent, unclear) does not ask for an audio review
PrioritizeCallReviewUnflagged(confidence, distress_score, content) ==
    LET high_confidence == HighConfidence(confidence)
        high_content == HighContent(content)
        high_concern == HighConcern(distress_score)
    IN  IF ~high_confidence /\ ~high_content /\ high_concern
            THEN Decision("Q1-IMMEDIATE", 1, TRUE, "case 1: hero scenario")
        ELSE IF ~high_confidence /\ high_content /\ ~high_concern
            THEN Decision("Q2-ELEVATED", 2, TRUE, "case 2: serious, unclear, calm")
        ELSE IF ~high_confidence /\ high_content /\ high_concern
            THEN Decision("Q1-IMMEDIATE", 1, TRUE, "case 3: critical, unclear")
        ELSE IF high_confidence /\ ~high_content /\ high_concern
            THEN Decision("Q3-MONITOR", 3, FALSE, "case 4: clear, distressed")
        ELSE IF high_confidence /\ high_content /\ ~high_concern
            THEN Decision("Q2-ELEVATED", 2, FALSE, "case 5: serious, clear, calm")
        ELSE IF high_confidence /\ high_content /\ high_concern
            THEN Decision("Q1-IMMEDIATE", 1, FALSE, "case 6: maximum urgency")
        ELSE IF ~high_confidence /\ ~high_content /\ ~high_concern
            THEN Decision("Q5-REVIEW", 5, FALSE, "case 7: unclear, no urgency")
        ELSE Decision("Q5-ROUTINE", 5, FALSE, "case 8: routine")

\* mutant: the hero scenario (case 1) is missing, so an unclear call without
\* urgent content goes to review however distressed the caller is
PrioritizeCallWithoutHero(confidence, distress_score, content) ==
    LET high_confidence == HighConfidence(confidence)
        high_content == HighContent(content)
        high_concern == HighConcern(distress_score)
    IN  IF ~high_confidence /\ high_content /\ ~high_concern
            THEN Decision("Q2-ELEVATED", 2, TRUE, "case 2: serious, unclear, calm")
        ELSE IF ~high_confidence /\ high_content /\ high_concern
            THEN Decision("Q1-IMMEDIATE", 1, TRUE, "case 3: critical, unclear")
        ELSE IF high_confidence /\ ~high_content /\ high_concern
            THEN Decision("Q3-MONITOR", 3, FALSE, "case 4: clear, distressed")
        ELSE IF high_confidence /\ high_content /\ ~high_concern
            THEN Decision("Q2-ELEVATED", 2, FALSE, "case 5: serious, clear, calm")
        ELSE IF high_confidence /\ high_content /\ high_concern
            THEN Decision("Q1-IMMEDIATE", 1, FALSE, "case 6: maximum urgency")
        ELSE IF ~high_confidence /\ ~high_content
            THEN Decision("Q5-REVIEW", 5, TRUE, "case 7: unclear, no urgency")
        ELSE Decision("Q5-ROUTINE", 5, FALSE, "case 8: routine")

\* TriageEngine.prioritize_call: the if/elif chain, in the source's order
PrioritizeCall(confidence, distress_score, content) ==
    LET high_confidence == HighConfidence(confidence)
        high_content == HighContent(content)
        high_concern == HighConcern(distress_score)
    IN  IF ~high_confidence /\ ~high_content /\ high_concern
            THEN Decision("Q1-IMMEDIATE", 1, TRUE, "case 1: hero scenario")
        ELSE IF ~high_confidence /\ high_content /\ ~high_concern
            THEN Decision("Q2-ELEVATED", 2, TRUE, "case 2: serious, unclear, calm")
        ELSE IF ~high_confidence /\ high_content /\ high_concern
            THEN Decision("Q1-IMMEDIATE", 1, TRUE, "case 3: critical, unclear")
        ELSE IF high_confidence /\ ~high_content /\ high_concern
            THEN Decision("Q3-MONITOR", 3, FALSE, "case 4: clear, distressed")
        ELSE IF high_confidence /\ high_content /\ ~high_concern
            THEN Decision("Q2-ELEVATED", 2, FALSE, "case 5: serious, clear, calm")
        ELSE IF high_confidence /\ high_content /\ high_concern
            THEN Decision("Q1-IMMEDIATE", 1, FALSE, "case 6: maximum urgency")
        ELSE IF ~high_confidence /\ ~high_content /\ ~high_concern
            THEN Decision("Q5-REVIEW", 5, TRUE, "case 7: unclear, no urgency")
        ELSE Decision("Q5-ROUTINE", 5, FALSE, "case 8: routine")

Guidance(action, escalate) ==
    [dispatcher_action |-> action, escalation_required |-> escalate]

\* mutant: Q2-ELEVATED escalates too
DispatcherFieldsEscalatingElevated(queue) ==
    IF queue = "Q1-IMMEDIATE" THEN Guidance("immediate attention required", TRUE)
    ELSE IF queue = "Q2-ELEVATED" THEN Guidance("high priority", TRUE)
    ELSE IF queue = "Q3-MONITOR" THEN Guidance("monitor situation", FALSE)
    ELSE IF queue = "Q5-REVIEW" THEN Guidance("review when available", FALSE)
    ELSE Guidance("routine logging", FALSE)

\* the dispatcher-specific fields generate_dispatcher_guidance adds for a queue
DispatcherFields(queue) ==
    IF queue = "Q1-IMMEDIATE" THEN Guidance("immediate attention required", TRUE)
    ELSE IF queue = "Q2-ELEVATED" THEN Guidance("high priority", FALSE)
    ELSE IF queue = "Q3-MONITOR" THEN Guidance("monitor situation", FALSE)
    ELSE IF queue = "Q5-REVIEW" THEN Guidance("review when available", FALSE)
    ELSE Guidance("routine logging", FALSE)

\* TriageEngine.generate_dispatcher_guidance
GenerateDispatcherGuidance(confidence, distress_score, content) ==
    LET triage == PrioritizeCall(confidence, distress_score, content)
    IN  triage @@ DispatcherFields(triage.queue)

----------------------------------------------------------------------------
\* Inputs: inbound chunks and provider outcomes

\* audio_data: zero-length bytes, bytes np.frombuffer rejects, or n ticks of
\* Float32 samples whose RMS is above (loud) or not above the energy threshold
Pcm(n, loud) == [kind |-> "pcm", n |-> n, loud |-> loud]

AudioData ==
    {[kind |-> "empty", n |-> 0, loud |-> FALSE],
     [kind |-> "undecodable", n |-> 0, loud |-> FALSE],
     Pcm(5, TRUE), Pcm(1, FALSE), Pcm(3, FALSE), Pcm(OverflowDuration, TRUE)}

NoData == [kind |-> "none", n |-> 0, loud |-> FALSE]

\* transcription results: blank audio, a short fragment, a sentence
AsrResults ==
    {[transcript |-> <<" ">>, confidence |-> 0],
     [transcript |-> <<"a", "a">>, confidence |-> 20],
     [transcript |-> <<"a", "a", "a", "a", "a", " ">>, confidence |-> 90]}
DistressScores == {10, 90}
ContentScores == {75}

\* what a provider call does: it returns a result or it raises
AsrOutcomes ==
    {r @@ [raised |-> FALSE] : r \in AsrResults}
    \cup {[raised |-> TRUE, transcript |-> <<>>, confidence |-> 0]}
BioOutcomes ==
    [raised : {FALSE}, distress_score : DistressScores]
    \cup {[raised |-> TRUE, distress_score |-> 0]}
NlpOutcomes ==
    [raised : {FALSE}, content_score : ContentScores]
    \cup {[raised |-> TRUE, content_score |-> 0]}

\* the call_id of the session in focus
CallId == IF focus = 1 THEN "LIVE-1" ELSE "LIVE-2"

----------------------------------------------------------------------------
\* AudioBuffer

RECURSIVE SumLen(_)
SumLen(buf) == IF buf = <<>> THEN 0 ELSE Head(buf).n + SumLen(Tail(buf))

BufferState(buf, td, lvt) ==
    [buffer |-> buf, total_duration |-> td, last_voice_time |-> lvt]

\* mutant: every chunk counts as voice
AddChunkAlwaysVoice(b, data, id) ==
    IF data.kind # "pcm" \/ data.n = 0 THEN b
    ELSE LET buf == Append(b.buffer, [id |-> id, n |-> data.n, loud |-> data.loud])
         IN  BufferState(buf, SumLen(buf), SumLen(buf))

\* AudioBuffer.add_chunk
AddChunk(b, data, id) ==
    IF data.kind = "empty" THEN b
    ELSE IF data.kind = "undecodable" THEN b
    ELSE IF data.n > 0
    THEN LET buf == Append(b.buffer, [id |-> id, n |-> data.n, loud |-> data.loud])
             td == SumLen(buf)
         IN  BufferState(buf, td, IF data.loud THEN td ELSE b.last_voice_time)
    ELSE b

\* mutant: the silence trigger does not ask whether voice was ever heard
ShouldProcessWithoutVoice(b) ==
    IF Len(b.buffer) = 0 THEN FALSE
    ELSE IF b.total_duration - b.last_voice_time >= SilenceDuration THEN TRUE
    ELSE IF b.total_duration >= OverflowDuration THEN TRUE
    ELSE FALSE

\* mutant: no overflow cap, only the silence trigger
ShouldProcessWithoutCap(b) ==
    IF Len(b.buffer) = 0 THEN FALSE
    ELSE IF b.total_duration - b.last_voice_time >= SilenceDuration
            /\ b.last_voice_time > 0
    THEN TRUE
    ELSE FALSE

\* mutant: the cap is compared with > instead of >=
ShouldProcessAboveCap(b) ==
    IF Len(b.buffer) = 0 THEN FALSE
    ELSE IF b.total_duration - b.last_voice_time >= SilenceDuration
            /\ b.last_voice_time > 0
    THEN TRUE
    ELSE IF b.total_duration > OverflowDuration THEN TRUE
    ELSE FALSE

\* AudioBuffer.should_process
ShouldProcess(b) ==
    IF Len(b.buffer) = 0 THEN FALSE
    ELSE IF b.total_duration - b.last_voice_time >= SilenceDuration
            /\ b.last_voice_time > 0
    THEN TRUE
    ELSE IF b.total_duration >= OverflowDuration THEN TRUE
    ELSE FALSE

\* mutant: clear() leaves the buffer as it is
ClearSkipped == BufferState(buffer, total_duration, last_voice_time)

\* AudioBuffer.clear
Clear == BufferState(<<>>, 0, 0)

CurrentBuffer == BufferState(buffer, total_duration, last_voice_time)

SetBuffer(b) ==
    /\ buffer' = b.buffer
    /\ total_duration' = b.total_duration
    /\ last_voice_time' = b.last_voice_time

----------------------------------------------------------------------------
\* LiveCallSession: updates and persistence

\* mutant: buffer_update carries the counter as it was before the chunk
BufferUpdateStale(duration, chunks_received) ==
    [type |-> "buffer_update", duration |-> duration,
     chunks_received |-> chunks_received - 1]

\* the messages handed to send_update
BufferUpdate(duration, chunks_received) ==
    [type |-> "buffer_update", duration |-> duration, chunks_received |-> chunks_received]

ProcessingStarted(duration) ==
    [type |-> "processing_started", duration |-> duration]

ProcessingComplete(ft, confidence, content, distress, triage, call_duration) ==
    [type |-> "processing_complete", transcript |-> ft, confidence |-> confidence,
     content_score |-> content, distress_score |-> distress, triage |-> triage,
     call_duration |-> call_duration]

\* the message send_error builds
ErrorUpdate == [type |-> "error"]

\* LiveCallSession.send_update: the call is recorded; the message goes out only on
\* a connected websocket, and the call never raises
SendUpdate(log, msg) ==
    Append(log, msg)

\* mutant: send_update lets the exception of a closed websocket out
SendRaisesWhenClosed(connected) == ~connected

\* whether send_update raises: its try/except catches every Exception
SendRaises(connected) == FALSE

\* the analysis finalize returns (the wall-clock duration is left out)
FinalAnalysis(ft, cs, ds, content, triage) ==
    [call_id |-> CallId,
     transcript |-> ft,
     confidence |-> GetWeightedAverageConfidence(cs),
     content_score |-> content,
     distress_score |-> GetWeightedAverageDistress(ds),
     triage |-> triage,
     chunks_processed |-> chunk_count]

\* mutant: the row stores the plain mean of the confidence samples
LiveCallRowUnweighted(td, ft, cs, ds, content, triage) ==
    [call_id |-> CallId,
     chunks_processed |-> chunk_count,
     total_audio_duration |-> td,
     transcript |-> ft,
     confidence_score |-> UnweightedAverage(cs),
     distress_score |-> GetWeightedAverageDistress(ds),
     content_score |-> content,
     triage_queue |-> IF triage # NULL THEN triage.queue ELSE "None",
     priority_level |-> IF triage # NULL THEN triage.priority_level ELSE 0,
     flag_audio_review |-> IF triage # NULL THEN triage.flag_audio_review ELSE FALSE,
     escalation_required |-> IF triage # NULL THEN triage.escalation_required ELSE FALSE,
     triage_data |-> triage,
     status |-> "completed"]

\* the LiveCall row _save_to_database builds
LiveCallRow(td, ft, cs, ds, content, triage) ==
    [call_id |-> CallId,
     chunks_processed |-> chunk_count,
     total_audio_duration |-> td,
     transcript |-> ft,
     confidence_score |-> GetWeightedAverageConfidence(cs),
     distress_score |-> GetWeightedAverageDistress(ds),
     content_score |-> content,
     triage_queue |-> IF triage # NULL THEN triage.queue ELSE "None",
     priority_level |-> IF triage # NULL THEN triage.priority_level ELSE 0,
     flag_audio_review |-> IF triage # NULL THEN triage.flag_audio_review ELSE FALSE,
     escalation_required |-> IF triage # NULL THEN triage.escalation_required ELSE FALSE,
     triage_data |-> triage,
     status |-> "completed"]

\* mutant: a commit replaces the table
CommitReplacing(rows, row, ok) ==
    IF ~ok THEN rows ELSE <<row>>

\* mutant: the call_id column is not unique
CommitWithoutUnique(rows, row, ok) ==
    IF ~ok THEN rows ELSE Append(rows, row)

\* db.add + db.commit on live_calls, whose call_id column is unique; ok is false
\* when the store cannot be opened or written
Commit(rows, row, ok) ==
    IF ~ok THEN rows
    ELSE IF \E i \in 1..Len(rows) : rows[i].call_id = row.call_id THEN rows
    ELSE Append(rows, row)

\* mutant: a failed write raises out of finalize, which then returns nothing
FinalizeTailRaising(td, ft, cs, ds, content, triage, ok) ==
    /\ db' = Commit(db, LiveCallRow(td, ft, cs, ds, content, triage), ok)
    /\ db_attempts' = db_attempts + 1
    /\ returned' = IF ok THEN Append(returned, FinalAnalysis(ft, cs, ds, content, triage))
                   ELSE returned

\* LiveCallSession.finalize from "Calculate call duration" on:
\* _save_to_database (which swallows every exception), then the return
FinalizeTail(td, ft, cs, ds, content, triage, ok) ==
    /\ db' = Commit(db, LiveCallRow(td, ft, cs, ds, content, triage), ok)
    /\ db_attempts' = db_attempts + 1
    /\ returned' = Append(returned, FinalAnalysis(ft, cs, ds, content, triage))

\* what follows process_buffer's return in its caller
AfterProcessBuffer(td, ft, cs, ds, content, triage, ok) ==
    IF caller = "finalize"
    THEN FinalizeTail(td, ft, cs, ds, content, triage, ok)
    ELSE UNCHANGED storeVars

----------------------------------------------------------------------------
\* LiveCallSession: the processing cycle

NoResult == [raised |-> FALSE, transcript |-> <<>>, confidence |-> 0]

ResetLocals ==
    /\ audio' = <<>>
    /\ asr_result' = NoResult
    /\ bio_result' = 0
    /\ at_entry' = NULL

\* mutant: processing_started is sent ahead of the updates already sent in the call
ProcessBufferStartEarly(b, log, who) ==
    /\ audio' = b.buffer
    /\ at_entry' = metricVars
    /\ updates' = <<ProcessingStarted(SumLen(b.buffer))>> \o log
    /\ pc' = "asr"
    /\ caller' = who
    /\ cycles_started' = cycles_started + 1
    /\ step_raised' = "none"
    /\ UNCHANGED <<asr_result, bio_result, completed>>

\* process_buffer up to its first provider call, on buffer state b with the
\* updates sent so far in log.  The caller has checked that b.buffer is not empty.
ProcessBufferStart(b, log, who) ==
    /\ audio' = b.buffer
    /\ at_entry' = metricVars
    /\ updates' = SendUpdate(log, ProcessingStarted(SumLen(b.buffer)))
    /\ pc' = "asr"
    /\ caller' = who
    /\ cycles_started' = cycles_started + 1
    /\ step_raised' = "none"
    /\ UNCHANGED <<asr_result, bio_result, completed>>

\* mutant: the except branch clears the buffer as the success path does
CycleErrorClearing(step, ft, cs, lc, ds, ld, content, ok) ==
    /\ full_transcript' = ft
    /\ confidence_scores' = cs
    /\ latest_confidence' = lc
    /\ distress_scores' = ds
    /\ latest_distress' = ld
    /\ content_score' = content
    /\ updates' = SendUpdate(updates, ErrorUpdate)
    /\ step_raised' = step
    /\ pc' = "idle"
    /\ caller' = "none"
    /\ ResetLocals
    /\ SetBuffer(Clear)
    /\ AfterProcessBuffer(Clear.total_duration, ft, cs, ds, content, current_triage, ok)
    /\ UNCHANGED <<current_triage, cycles_started, completed>>

\* process_buffer's except branch: one error update, the buffer is not cleared.
\* The arguments are the session fields as the cycle has left them so far.
CycleError(step, ft, cs, lc, ds, ld, content, ok) ==
    /\ full_transcript' = ft
    /\ confidence_scores' = cs
    /\ latest_confidence' = lc
    /\ distress_scores' = ds
    /\ latest_distress' = ld
    /\ content_score' = content
    /\ updates' = SendUpdate(updates, ErrorUpdate)
    /\ step_raised' = step
    /\ pc' = "idle"
    /\ caller' = "none"
    /\ ResetLocals
    /\ AfterProcessBuffer(total_duration, ft, cs, ds, content, current_triage, ok)
    /\ UNCHANGED <<bufferVars, current_triage, cycles_started, completed>>

\* process_buffer from "4. Triage Decision" on: the decision, the
\* processing_complete update (built before the buffer is cleared), clear()
CycleFinish(ds, ld, content, distress, ok) ==
    IF triage_engine = "none"
    THEN CycleError("triage", full_transcript, confidence_scores, latest_confidence,
                    ds, ld, content, ok)
    ELSE LET triage == GenerateDispatcherGuidance(latest_confidence, ld, Frac(content, 1))
         IN  IF SendRaises(ws_connected)
             THEN \* the processing_complete send raises: the decision is stored, the
                  \* except branch runs, clear() is not reached
                  /\ distress_scores' = ds
                  /\ latest_distress' = ld
                  /\ content_score' = content
                  /\ current_triage' = triage
                  /\ updates' = SendUpdate(updates, ErrorUpdate)
                  /\ step_raised' = "send"
                  /\ pc' = "idle"
                  /\ caller' = "none"
                  /\ ResetLocals
                  /\ AfterProcessBuffer(total_duration, full_transcript,
                                        confidence_scores, ds, content, triage, ok)
                  /\ UNCHANGED <<bufferVars, full_transcript, confidence_scores,
                                 latest_confidence, cycles_started, completed>>
             ELSE
             /\ distress_scores' = ds
             /\ latest_distress' = ld
             /\ content_score' = content
             /\ current_triage' = triage
             /\ updates' = SendUpdate(updates,
                               ProcessingComplete(full_transcript, latest_confidence,
                                                  content, ld, triage, total_duration))
             /\ SetBuffer(Clear)
             /\ completed' = Append(completed,
                                 [confidence |-> asr_result.confidence,
                                  distress |-> distress,
                                  duration |-> SumLen(audio)])
             /\ pc' = "idle"
             /\ caller' = "none"
             /\ ResetLocals
             /\ AfterProcessBuffer(Clear.total_duration, full_transcript,
                                   confidence_scores, ds, content, triage, ok)
             /\ UNCHANGED <<full_transcript, confidence_scores, latest_confidence,
                            step_raised, cycles_started>>

\* "1. ASR Transcription": the outcome r of _transcribe_audio
AsrDone(r, ok) ==
    /\ pc = "asr"
    /\ IF r.raised
       THEN CycleError("asr", full_transcript, confidence_scores, latest_confidence,
                       distress_scores, latest_distress, content_score, ok)
       ELSE LET chunk == Strip(r.transcript)
                chunk_duration == SumLen(audio)
                cs == IF chunk # <<>>
                      THEN Append(confidence_scores, <<r.confidence, chunk_duration>>)
                      ELSE confidence_scores
            IN  /\ asr_result' = r
                /\ full_transcript' = AppendTranscript(full_transcript, chunk)
                /\ confidence_scores' = cs
                /\ latest_confidence' = IF chunk # <<>>
                                        THEN GetWeightedAverageConfidence(cs)
                                        ELSE latest_confidence
                /\ pc' = "bio"
                /\ UNCHANGED <<bufferVars, distress_scores, content_score, latest_distress,
                               current_triage, caller, audio, at_entry, bio_result, storeVars,
                               updates, step_raised, cycles_started, completed>>
    /\ UNCHANGED <<is_active, chunk_count, triage_engine, ws_connected, last_call, pureVars>>

\* "2. Bio-Acoustic Analysis": the outcome r of _analyze_bio_acoustic;
\* then "3. NLP": the extractor is called only on a transcript of 5 characters
BioDone(r, ok) ==
    /\ pc = "bio"
    /\ IF r.raised
       THEN CycleError("bio", full_transcript, confidence_scores, latest_confidence,
                       distress_scores, latest_distress, content_score, ok)
       ELSE LET d == r.distress_score
                ds == Append(distress_scores, <<d, SumLen(audio)>>)
                ld == GetWeightedAverageDistress(ds)
            IN  IF TranscriptReady(full_transcript)
                THEN /\ distress_scores' = ds
                     /\ latest_distress' = ld
                     /\ bio_result' = d
                     /\ pc' = "nlp"
                     /\ UNCHANGED <<bufferVars, full_transcript, confidence_scores,
                                    content_score, latest_confidence, current_triage,
                                    caller, audio, at_entry, asr_result, storeVars, updates,
                                    step_raised, cycles_started, completed>>
                ELSE CycleFinish(ds, ld, 0, d, ok)
    /\ UNCHANGED <<is_active, chunk_count, triage_engine, ws_connected, last_call, pureVars>>

\* "3. NLP Entity Extraction": the outcome r of _extract_entities
NlpDone(r, ok) ==
    /\ pc = "nlp"
    /\ IF r.raised
       THEN CycleError("nlp", full_transcript, confidence_scores, latest_confidence,
                       distress_scores, latest_distress, content_score, ok)
       ELSE CycleFinish(distress_scores, latest_distress, r.content_score, bio_result, ok)
    /\ UNCHANGED <<is_active, chunk_count, triage_engine, ws_connected, last_call, pureVars>>

----------------------------------------------------------------------------
\* LiveCallSession: the methods

\* mutant: a method is called while the previous call has not returned
NeverAwaited == TRUE

\* the caller awaits each method call: the next one starts when the last returned
Awaited == pc = "idle"

\* LiveCallSession.process_audio_chunk, up to the first provider call of the
\* cycle it triggers
ProcessAudioChunk(data) ==
    /\ Awaited
    /\ chunk_count < MaxChunks
    /\ LET b == AddChunk(CurrentBuffer, data, chunk_count + 1)
           log == SendUpdate(<<>>, BufferUpdate(b.total_duration, chunk_count + 1))
       IN  /\ SetBuffer(b)
           /\ chunk_count' = chunk_count + 1
           /\ ShouldProcess(b) => cycles_started < MaxCycles
           /\ IF ShouldProcess(b)
              THEN ProcessBufferStart(b, log, "chunk")
              ELSE /\ updates' = log
                   /\ UNCHANGED <<cycleVars, step_raised, cycles_started, completed>>
    /\ last_call' = [op |-> "process_audio_chunk", data |-> data]
    /\ UNCHANGED <<metricVars, storeVars, is_active, triage_engine, ws_connected,
                   pureVars>>

\* mutant: the final buffer is processed whatever the chunk counter says
FinalizeShouldProcessAnyCount(count, duration) == duration > FinalMinDuration

\* the condition under which finalize processes the final buffer
FinalizeShouldProcess(count, duration) == count = 0 /\ duration > FinalMinDuration

\* mutant: finalize does not mark the session inactive
FinalizeStayingActive(ok) ==
    /\ Awaited
    /\ Len(returned) < MaxFinalize
    /\ is_active' = is_active
    /\ last_call' = [op |-> "finalize", data |-> NoData]
    /\ IF FinalizeShouldProcess(chunk_count, total_duration)
          /\ ws_connected /\ Len(buffer) > 0
       THEN /\ ProcessBufferStart(CurrentBuffer, <<>>, "finalize")
            /\ UNCHANGED <<storeVars>>
       ELSE /\ FinalizeTail(total_duration, full_transcript, confidence_scores,
                            distress_scores, content_score, current_triage, ok)
            /\ updates' = <<>>
            /\ UNCHANGED <<cycleVars, step_raised, cycles_started, completed>>
    /\ UNCHANGED <<bufferVars, metricVars, chunk_count, triage_engine, ws_connected,
                   pureVars>>

\* LiveCallSession.finalize, up to the first provider call of the final cycle
\* when it runs one, to its return otherwise
Finalize(ok) ==
    /\ Awaited
    /\ Len(returned) < MaxFinalize
    /\ is_active' = FALSE
    /\ last_call' = [op |-> "finalize", data |-> NoData]
    /\ IF FinalizeShouldProcess(chunk_count, total_duration)
          /\ ws_connected /\ Len(buffer) > 0
       THEN /\ ProcessBufferStart(CurrentBuffer, <<>>, "finalize")
            /\ UNCHANGED <<storeVars>>
       ELSE /\ FinalizeTail(total_duration, full_transcript, confidence_scores,
                            distress_scores, content_score, current_triage, ok)
            /\ updates' = <<>>
            /\ UNCHANGED <<cycleVars, step_raised, cycles_started, completed>>
    /\ UNCHANGED <<bufferVars, metricVars, chunk_count, triage_engine, ws_connected,
                   pureVars>>

\* the client goes away: websocket.client_state is no longer CONNECTED
Disconnect ==
    /\ ws_connected
    /\ ws_connected' = FALSE
    /\ UNCHANGED <<bufferVars, metricVars, cycleVars, storeVars, historyVars, is_active,
                   chunk_count, triage_engine, updates, pureVars>>

----------------------------------------------------------------------------
\* The session

TriageIdle ==
    /\ t_in = [confidence |-> Frac(0, 1), distress_score |-> Frac(0, 1),
               content_score |-> Frac(0, 1)]
    /\ t_out = NULL

MetricIdle ==
    /\ wm_samples = <<>>
    /\ wm_avg = [confidence |-> GetWeightedAverageConfidence(<<>>),
                 distress |-> GetWeightedAverageDistress(<<>>)]

\* LiveCallSession.__init__ and AudioBuffer.__init__
SessionInit ==
    /\ buffer = <<>>
    /\ total_duration = 0
    /\ last_voice_time = 0
    /\ is_active = TRUE
    /\ full_transcript = <<>>
    /\ confidence_scores = <<>>
    /\ distress_scores = <<>>
    /\ content_score = 0
    /\ latest_confidence = Frac(0, 1)
    /\ latest_distress = Frac(0, 1)
    /\ current_triage = NULL
    /\ chunk_count = 0
    /\ pc = "idle"
    /\ caller = "none"
    /\ audio = <<>>
    /\ at_entry = NULL
    /\ asr_result = NoResult
    /\ bio_result = 0
    /\ ws_connected = TRUE
    /\ updates = <<>>
    /\ db = <<>>
    /\ returned = <<>>
    /\ last_call = [op |-> "none", data |-> NoData]
    /\ step_raised = "none"
    /\ cycles_started = 0
    /\ completed = <<>>
    /\ db_attempts = 0

\* no handler: the session's methods are called directly
HostIdle ==
    /\ handler = "none"
    /\ inbox = <<>>
    /\ stream = <<>>

\* the sessions of the process and its ASRService objects: the module-level
\* singleton of main.py and the copy a session makes for itself
Sessions == {1, 2}
Private(t) == IF t = 1 THEN "private1" ELSE "private2"
Instances == {"shared"} \cup {Private(t) : t \in Sessions}

\* the singleton was preloaded at startup and no transcription call is followed
AsrIdle ==
    /\ startup = "done"
    /\ model = [i \in Instances |-> IF i = "shared" THEN "loaded" ELSE "None"]
    /\ processor = [i \in Instances |-> IF i = "shared" THEN "loaded" ELSE "None"]
    /\ asr_service = [t \in Sessions |-> "shared"]
    /\ worker = [t \in Sessions |-> "idle"]
    /\ asr_out = [t \in Sessions |-> "none"]
    /\ calls = [t \in Sessions |-> 0]
    /\ load_count = [i \in Instances |-> IF i = "shared" THEN 1 ELSE 0]

\* no request to the batch endpoint
BatchIdle ==
    /\ outputs = NULL
    /\ analyzed = NULL

\* one session only
PairIdle ==
    /\ focus = 1
    /\ other = NULL
    /\ AsrIdle
    /\ BatchIdle

Init ==
    /\ SessionInit
    /\ triage_engine \in {"injected", "none"}
    /\ TriageIdle
    /\ MetricIdle
    /\ HostIdle
    /\ PairIdle

Next ==
    \/ \E data \in AudioData : ProcessAudioChunk(data) /\ UNCHANGED <<hostVars, pairVars>>
    \/ \E r \in AsrOutcomes, ok \in BOOLEAN : AsrDone(r, ok) /\ UNCHANGED <<hostVars, pairVars>>
    \/ \E r \in BioOutcomes, ok \in BOOLEAN : BioDone(r, ok) /\ UNCHANGED <<hostVars, pairVars>>
    \/ \E r \in NlpOutcomes, ok \in BOOLEAN : NlpDone(r, ok) /\ UNCHANGED <<hostVars, pairVars>>
    \/ \E ok \in BOOLEAN : Finalize(ok) /\ UNCHANGED <<hostVars, pairVars>>
    \/ Disconnect /\ UNCHANGED <<hostVars, pairVars>>

Spec == Init /\ [][Next]_vars

----------------------------------------------------------------------------
\* The decision matrix on its own: every combination of scores around the
\* three thresholds, whole hundredths and halves between them

Scores ==
    {Frac(k, 1) : k \in {0, 39, 40, 41, 49, 50, 51, 69, 70, 71, 100}}
    \cup {Frac(81, 2), Frac(101, 2), Frac(139, 2)}

TriageInit ==
    /\ SessionInit
    /\ triage_engine = "injected"
    /\ MetricIdle
    /\ t_in \in [confidence : Scores, distress_score : Scores, content_score : Scores]
    /\ t_out = NULL
    /\ HostIdle
    /\ PairIdle

\* a call of generate_dispatcher_guidance
Decide ==
    /\ t_out = NULL
    /\ t_out' = GenerateDispatcherGuidance(t_in.confidence, t_in.distress_score,
                                           t_in.content_score)
    /\ UNCHANGED <<sessionVars, t_in, wm_samples, wm_avg, hostVars, pairVars>>

TriageNext == Decide

TriageSpec == TriageInit /\ [][TriageNext]_vars

----------------------------------------------------------------------------
\* The weighted averages on their own: samples of any weight, zero included

SampleValues == {0, 20, 90}
SampleWeights == {0, 1, 9}

MetricInit ==
    /\ SessionInit
    /\ triage_engine = "injected"
    /\ TriageIdle
    /\ MetricIdle
    /\ HostIdle
    /\ PairIdle

\* a sample is appended and both averages are recomputed
Record(value, weight) ==
    /\ Len(wm_samples) < MaxSamples
    /\ wm_samples' = Append(wm_samples, <<value, weight>>)
    /\ wm_avg' = [confidence |-> GetWeightedAverageConfidence(wm_samples'),
                  distress |-> GetWeightedAverageDistress(wm_samples')]
    /\ UNCHANGED <<sessionVars, t_in, t_out, hostVars, pairVars>>

MetricNext == \E value \in SampleValues, weight \in SampleWeights : Record(value, weight)

MetricSpec == MetricInit /\ [][MetricNext]_vars

----------------------------------------------------------------------------
\* handle_live_call: one session driven by the WebSocket handler

\* a frame that is not binary: receive_bytes raises on it
TextFrame == [kind |-> "text", n |-> 0, loud |-> FALSE]

Frames == AudioData \cup {TextFrame}

\* one send_update call as the stream records it: who sent it and the chunk
\* counter at the time
Entry(type, origin, count) ==
    [type |-> type, origin |-> origin, chunks |-> count]

\* provider outcomes in the handler's runs: a sentence, a high distress score, a
\* content score, or an exception
SpokenOutcomes == {r \in AsrOutcomes : r.raised \/ r.confidence = 90}
DistressedOutcomes == {r \in BioOutcomes : r.raised \/ r.distress_score = 90}

Relay(log, count) == [i \in 1..Len(log) |-> Entry(log[i].type, "session", count)]

\* the updates a step of a running cycle has added to the call's log
Added(old, new) == SubSeq(new, Len(old) + 1, Len(new))

ReceiveErrors ==
    Cardinality({i \in 1..Len(stream) :
                    stream[i].type = "error" /\ stream[i].origin = "handler"})

CallEnded(analysis) == [type |-> "call_ended", analysis |-> analysis]

\* websocket.accept(), LiveCallSession(...) and the connected update
HandlerInit ==
    /\ SessionInit
    /\ triage_engine \in {"injected", "none"}
    /\ TriageIdle
    /\ MetricIdle
    /\ PairIdle
    /\ handler = "receiving"
    /\ inbox = <<>>
    /\ stream = <<Entry("connected", "handler", 0)>>

\* the client sends a frame
ClientSend(frame) ==
    /\ handler = "receiving"
    /\ ws_connected
    /\ Len(inbox) < MaxInbox
    /\ frame.kind = "text" => ReceiveErrors < MaxReceiveErrors
    /\ frame.kind \in {"pcm", "undecodable"} => chunk_count + Len(inbox) < MaxChunks
    /\ inbox' = Append(inbox, frame)
    /\ UNCHANGED <<sessionVars, pureVars, handler, stream, pairVars>>

\* the client closes the connection
ClientClose ==
    /\ handler = "receiving"
    /\ Disconnect
    /\ UNCHANGED <<hostVars, pairVars>>

\* receive_bytes returns zero bytes: the loop continues
HandlerSkipEmpty ==
    /\ handler = "receiving"
    /\ Awaited
    /\ inbox # <<>>
    /\ Head(inbox).kind = "empty"
    /\ inbox' = Tail(inbox)
    /\ UNCHANGED <<sessionVars, pureVars, handler, stream, pairVars>>

\* receive_bytes raises something other than WebSocketDisconnect: send_error, and
\* the loop continues
HandlerReceiveError ==
    /\ handler = "receiving"
    /\ Awaited
    /\ inbox # <<>>
    /\ Head(inbox).kind = "text"
    /\ inbox' = Tail(inbox)
    /\ updates' = SendUpdate(<<>>, ErrorUpdate)
    /\ stream' = Append(stream, Entry("error", "handler", chunk_count))
    /\ UNCHANGED <<bufferVars, metricVars, cycleVars, storeVars, historyVars, is_active,
                   chunk_count, triage_engine, ws_connected, pureVars, handler, pairVars>>

\* receive_bytes returns a chunk: await session.process_audio_chunk(data)
HandlerChunk ==
    /\ handler = "receiving"
    /\ inbox # <<>>
    /\ Head(inbox).kind \in {"pcm", "undecodable"}
    /\ ProcessAudioChunk(Head(inbox))
    /\ inbox' = Tail(inbox)
    /\ stream' = stream \o Relay(updates', chunk_count')
    /\ UNCHANGED <<handler, pairVars>>

\* the provider calls of the cycle the handler is waiting for
HandlerAsrDone(r, ok) ==
    /\ handler \in {"receiving", "ending"}
    /\ AsrDone(r, ok)
    /\ stream' = stream \o Relay(Added(updates, updates'), chunk_count)
    /\ UNCHANGED <<handler, inbox, pairVars>>

HandlerBioDone(r, ok) ==
    /\ handler \in {"receiving", "ending"}
    /\ BioDone(r, ok)
    /\ stream' = stream \o Relay(Added(updates, updates'), chunk_count)
    /\ UNCHANGED <<handler, inbox, pairVars>>

HandlerNlpDone(r, ok) ==
    /\ handler \in {"receiving", "ending"}
    /\ NlpDone(r, ok)
    /\ stream' = stream \o Relay(Added(updates, updates'), chunk_count)
    /\ UNCHANGED <<handler, inbox, pairVars>>

\* receive_bytes raises WebSocketDisconnect: break
HandlerDisconnected ==
    /\ handler = "receiving"
    /\ Awaited
    /\ inbox = <<>>
    /\ ~ws_connected
    /\ handler' = "finally"
    /\ UNCHANGED <<sessionVars, pureVars, inbox, stream, pairVars>>

\* mutant: no finally block, a cancelled handler just ends
HandlerCancelledNoFinally ==
    /\ handler = "receiving"
    /\ handler' = "ended"
    /\ pc' = "idle"
    /\ caller' = "none"
    /\ ResetLocals
    /\ UNCHANGED <<bufferVars, metricVars, storeVars, historyVars, is_active, chunk_count,
                   triage_engine, ws_connected, updates, pureVars, inbox, stream, pairVars>>

\* the handler's task is cancelled at the await it is suspended in: CancelledError
\* passes every "except Exception", the cycle in flight is abandoned
HandlerCancelled ==
    /\ handler = "receiving"
    /\ handler' = "finally"
    /\ pc' = "idle"
    /\ caller' = "none"
    /\ ResetLocals
    /\ UNCHANGED <<bufferVars, metricVars, storeVars, historyVars, is_active, chunk_count,
                   triage_engine, ws_connected, updates, pureVars, inbox, stream, pairVars>>

\* finally: final_analysis = await session.finalize()
HandlerFinalize(ok) ==
    /\ handler = "finally"
    /\ Finalize(ok)
    /\ handler' = "ending"
    /\ stream' = stream \o Relay(updates', chunk_count)
    /\ UNCHANGED <<inbox, pairVars>>

\* finally: the call_ended update with the analysis finalize returned
HandlerCallEnded ==
    /\ handler = "ending"
    /\ Awaited
    /\ returned # <<>>
    /\ handler' = "ended"
    /\ updates' = SendUpdate(<<>>, CallEnded(returned[Len(returned)]))
    /\ stream' = Append(stream, Entry("call_ended", "handler", chunk_count))
    /\ UNCHANGED <<bufferVars, metricVars, cycleVars, storeVars, historyVars, is_active,
                   chunk_count, triage_engine, ws_connected, pureVars, inbox, pairVars>>

HandlerNext ==
    \/ \E frame \in Frames : ClientSend(frame)
    \/ ClientClose
    \/ HandlerSkipEmpty
    \/ HandlerReceiveError
    \/ HandlerChunk
    \/ \E r \in SpokenOutcomes, ok \in BOOLEAN : HandlerAsrDone(r, ok)
    \/ \E r \in DistressedOutcomes, ok \in BOOLEAN : HandlerBioDone(r, ok)
    \/ \E r \in NlpOutcomes, ok \in BOOLEAN : HandlerNlpDone(r, ok)
    \/ HandlerDisconnected
    \/ HandlerCancelled
    \/ \E ok \in BOOLEAN : HandlerFinalize(ok)
    \/ HandlerCallEnded

HandlerSpec == HandlerInit /\ [][HandlerNext]_vars

----------------------------------------------------------------------------
\* handle_live_call to its end: the receive loop, the finally block, and a transport
\* that can break.  The stream is not recorded here.

\* frames of the teardown runs
TeardownFrames ==
    {[kind |-> "empty", n |-> 0, loud |-> FALSE], Pcm(5, TRUE), Pcm(OverflowDuration, TRUE)}

TeardownInit ==
    /\ SessionInit
    /\ triage_engine = "injected"
    /\ TriageIdle
    /\ MetricIdle
    /\ PairIdle
    /\ handler = "receiving"
    /\ inbox = <<>>
    /\ stream = <<>>

\* the transport breaks under the server without a disconnect message: from here on
\* receive_bytes raises, on every call, an exception that is not WebSocketDisconnect
TransportBreaks ==
    /\ handler = "receiving"
    /\ Awaited
    /\ ws_connected
    /\ handler' = "failing"
    /\ inbox' = <<>>
    /\ UNCHANGED <<sessionVars, pureVars, stream, pairVars>>

\* receive_bytes raises on the broken transport: the loop's except Exception branch
HandlerReceiveFails ==
    /\ handler = "failing"
    /\ handler' = "reporting"
    /\ UNCHANGED <<sessionVars, pureVars, inbox, stream, pairVars>>

\* except Exception: await session.send_error(str(e)), then the loop calls
\* receive_bytes again
HandlerReportsError ==
    /\ handler = "reporting"
    /\ handler' = "failing"
    /\ updates' = SendUpdate(<<>>, ErrorUpdate)
    /\ UNCHANGED <<bufferVars, metricVars, cycleVars, storeVars, historyVars, is_active,
                   chunk_count, triage_engine, ws_connected, pureVars, inbox, stream,
                   pairVars>>

\* receive_bytes returns a chunk: await session.process_audio_chunk(data)
TeardownChunk ==
    /\ handler = "receiving"
    /\ inbox # <<>>
    /\ Head(inbox).kind = "pcm"
    /\ ProcessAudioChunk(Head(inbox))
    /\ inbox' = Tail(inbox)
    /\ UNCHANGED <<handler, stream, pairVars>>

\* a provider call of the cycle the handler is waiting for returns or raises
TeardownCycleStep ==
    /\ handler \in {"receiving", "ending"}
    /\ \/ \E r \in SpokenOutcomes, ok \in BOOLEAN : AsrDone(r, ok)
       \/ \E r \in DistressedOutcomes, ok \in BOOLEAN : BioDone(r, ok)
       \/ \E r \in NlpOutcomes, ok \in BOOLEAN : NlpDone(r, ok)
    /\ UNCHANGED <<hostVars, pairVars>>

\* finally: final_analysis = await session.finalize()
TeardownFinalize ==
    /\ handler = "finally"
    /\ \E ok \in BOOLEAN : Finalize(ok)
    /\ handler' = "ending"
    /\ UNCHANGED <<inbox, stream, pairVars>>

\* finally: the call_ended update
TeardownCallEnded ==
    /\ handler = "ending"
    /\ Awaited
    /\ returned # <<>>
    /\ handler' = "ended"
    /\ updates' = SendUpdate(<<>>, CallEnded(returned[Len(returned)]))
    /\ UNCHANGED <<bufferVars, metricVars, cycleVars, storeVars, historyVars, is_active,
                   chunk_count, triage_engine, ws_connected, pureVars, inbox, stream,
                   pairVars>>

\* the steps the handler coroutine takes by itself, given that the event loop runs it
\* and that provider calls terminate
TeardownHandlerStep ==
    \/ HandlerSkipEmpty
    \/ TeardownChunk
    \/ TeardownCycleStep
    \/ HandlerDisconnected
    \/ HandlerReceiveFails
    \/ HandlerReportsError
    \/ TeardownFinalize
    \/ TeardownCallEnded

TeardownNext ==
    \/ \E frame \in TeardownFrames :
        /\ cycles_started + Len(inbox) < MaxCycles
        /\ ClientSend(frame)
    \/ ClientClose
    \/ TransportBreaks
    \/ HandlerCancelled
    \/ HandlerSkipEmpty
    \/ TeardownChunk
    \/ TeardownCycleStep
    \/ HandlerDisconnected
    \/ HandlerReceiveFails
    \/ HandlerReportsError
    \/ TeardownFinalize
    \/ TeardownCallEnded

TeardownSpec == TeardownInit /\ [][TeardownNext]_vars /\ WF_vars(TeardownHandlerStep)

----------------------------------------------------------------------------
\* Two sessions of one process.  The session variables describe the session in
\* focus; the fields of the other one are kept in a record.  The store and the
\* injected services are shared.

\* the fields of the session in focus
SessionFields ==
    [buffer |-> buffer, total_duration |-> total_duration,
     last_voice_time |-> last_voice_time, is_active |-> is_active,
     full_transcript |-> full_transcript, confidence_scores |-> confidence_scores,
     distress_scores |-> distress_scores, content_score |-> content_score,
     latest_confidence |-> latest_confidence, latest_distress |-> latest_distress,
     current_triage |-> current_triage, chunk_count |-> chunk_count,
     pc |-> pc, caller |-> caller, audio |-> audio, at_entry |-> at_entry,
     asr_result |-> asr_result,
     bio_result |-> bio_result, ws_connected |-> ws_connected, updates |-> updates,
     returned |-> returned, last_call |-> last_call, step_raised |-> step_raised,
     cycles_started |-> cycles_started, completed |-> completed,
     db_attempts |-> db_attempts]

\* LiveCallSession.__init__ for the second session
FreshSession ==
    [buffer |-> <<>>, total_duration |-> 0, last_voice_time |-> 0, is_active |-> TRUE,
     full_transcript |-> <<>>, confidence_scores |-> <<>>, distress_scores |-> <<>>,
     content_score |-> 0, latest_confidence |-> Frac(0, 1),
     latest_distress |-> Frac(0, 1), current_triage |-> NULL, chunk_count |-> 0,
     pc |-> "idle", caller |-> "none", audio |-> <<>>, at_entry |-> NULL,
     asr_result |-> NoResult,
     bio_result |-> 0, ws_connected |-> TRUE, updates |-> <<>>, returned |-> <<>>,
     last_call |-> [op |-> "none", data |-> NoData], step_raised |-> "none",
     cycles_started |-> 0, completed |-> <<>>, db_attempts |-> 0]

PairInit ==
    /\ SessionInit
    /\ triage_engine = "injected"
    /\ TriageIdle
    /\ MetricIdle
    /\ HostIdle
    /\ focus = 1
    /\ other = FreshSession
    /\ AsrIdle
    /\ BatchIdle

\* the event loop runs the other session's coroutine next
Switch ==
    /\ other # NULL
    /\ focus' = 3 - focus
    /\ other' = SessionFields
    /\ buffer' = other.buffer
    /\ total_duration' = other.total_duration
    /\ last_voice_time' = other.last_voice_time
    /\ is_active' = other.is_active
    /\ full_transcript' = other.full_transcript
    /\ confidence_scores' = other.confidence_scores
    /\ distress_scores' = other.distress_scores
    /\ content_score' = other.content_score
    /\ latest_confidence' = other.latest_confidence
    /\ latest_distress' = other.latest_distress
    /\ current_triage' = other.current_triage
    /\ chunk_count' = other.chunk_count
    /\ pc' = other.pc
    /\ caller' = other.caller
    /\ audio' = other.audio
    /\ at_entry' = other.at_entry
    /\ asr_result' = other.asr_result
    /\ bio_result' = other.bio_result
    /\ ws_connected' = other.ws_connected
    /\ updates' = other.updates
    /\ returned' = other.returned
    /\ last_call' = other.last_call
    /\ step_raised' = other.step_raised
    /\ cycles_started' = other.cycles_started
    /\ completed' = other.completed
    /\ db_attempts' = other.db_attempts
    /\ UNCHANGED <<db, triage_engine, pureVars, hostVars, asrVars, batchVars>>

\* chunks of the two-session runs: 2.5 s and 30 s of voice
PairAudio == {Pcm(5, TRUE), Pcm(OverflowDuration, TRUE)}

PairNext ==
    \/ Switch
    \/ \E data \in PairAudio :
        /\ chunk_count < MaxPairChunks
        /\ ProcessAudioChunk(data)
        /\ UNCHANGED <<hostVars, pairVars>>
    \/ \E r \in SpokenOutcomes, ok \in BOOLEAN : AsrDone(r, ok) /\ UNCHANGED <<hostVars, pairVars>>
    \/ \E r \in DistressedOutcomes, ok \in BOOLEAN :
        BioDone(r, ok) /\ UNCHANGED <<hostVars, pairVars>>
    \/ \E r \in NlpOutcomes, ok \in BOOLEAN : NlpDone(r, ok) /\ UNCHANGED <<hostVars, pairVars>>
    \/ \E ok \in BOOLEAN :
        /\ Len(returned) < MaxPairFinalize
        /\ Finalize(ok)
        /\ UNCHANGED <<hostVars, pairVars>>

PairSpec == PairInit /\ [][PairNext]_vars

----------------------------------------------------------------------------
\* The providers behind the session: each wraps its model invocation in a
\* try/except of its own and returns a fallback result when the invocation raises

\* the transcript ASRService.transcribe_with_confidence returns on a failure
ErrorTranscript ==
    <<"[", "E", "R", "R", "O", "R", ":", " ", "T", "r", "a", "n", "s", "c", "r", "i",
      "p", "t", "i", "o", "n", " ", "f", "a", "i", "l", "e", "d", "]">>

\* ASRService.transcribe_with_confidence on the outcome inv of its model invocation
TranscribeWithConfidence(inv) ==
    IF inv.failed
    THEN [transcript |-> ErrorTranscript, confidence |-> 0]
    ELSE [transcript |-> inv.transcript, confidence |-> inv.confidence]

\* BioAcousticProcessor._zero_features
ZeroFeatures == [distress_score |-> 0]

\* BioAcousticProcessor.extract_features on the outcome inv of its analysis
ExtractFeatures(inv) ==
    IF inv.failed THEN ZeroFeatures ELSE [distress_score |-> inv.distress_score]

\* NLPService.extract_entities on the outcome inv of its model call
ExtractEntities(inv) ==
    IF inv.failed THEN [content_score |-> 0] ELSE [content_score |-> inv.content_score]

\* model invocations: one that succeeds and one that raises
AsrInvocations ==
    {[failed |-> FALSE, transcript |-> <<"a", "a", "a", "a", "a", " ">>, confidence |-> 90],
     [failed |-> TRUE, transcript |-> <<>>, confidence |-> 0]}
BioInvocations ==
    {[failed |-> FALSE, distress_score |-> 90], [failed |-> TRUE, distress_score |-> 0]}
NlpInvocations ==
    {[failed |-> FALSE, content_score |-> 75], [failed |-> TRUE, content_score |-> 0]}

\* what the session's provider calls do: the provider returns, or the call raises
\* outside the provider's own try (the temporary file, the model load)
ProviderAsrOutcomes ==
    {TranscribeWithConfidence(inv) @@ [raised |-> FALSE] : inv \in AsrInvocations}
    \cup {[raised |-> TRUE, transcript |-> <<>>, confidence |-> 0]}
ProviderBioOutcomes ==
    {ExtractFeatures(inv) @@ [raised |-> FALSE] : inv \in BioInvocations}
    \cup {[raised |-> TRUE, distress_score |-> 0]}
ProviderNlpOutcomes ==
    {ExtractEntities(inv) @@ [raised |-> FALSE] : inv \in NlpInvocations}
    \cup {[raised |-> TRUE, content_score |-> 0]}

\* chunks of the provider runs: 30 s of voice, 2.5 s of voice, 1.5 s of silence
ProviderAudio == {Pcm(OverflowDuration, TRUE), Pcm(5, TRUE), Pcm(3, FALSE)}

ProviderInit ==
    /\ SessionInit
    /\ triage_engine = "injected"
    /\ TriageIdle
    /\ MetricIdle
    /\ HostIdle
    /\ PairIdle

ProviderNext ==
    \/ \E data \in ProviderAudio : ProcessAudioChunk(data) /\ UNCHANGED <<hostVars, pairVars>>
    \/ \E r \in ProviderAsrOutcomes, ok \in BOOLEAN :
        AsrDone(r, ok) /\ UNCHANGED <<hostVars, pairVars>>
    \/ \E r \in ProviderBioOutcomes, ok \in BOOLEAN :
        BioDone(r, ok) /\ UNCHANGED <<hostVars, pairVars>>
    \/ \E r \in ProviderNlpOutcomes, ok \in BOOLEAN :
        NlpDone(r, ok) /\ UNCHANGED <<hostVars, pairVars>>
    \/ \E ok \in BOOLEAN :
        /\ Len(returned) < MaxPairFinalize
        /\ Finalize(ok)
        /\ UNCHANGED <<hostVars, pairVars>>

ProviderSpec == ProviderInit /\ [][ProviderNext]_vars

----------------------------------------------------------------------------
\* The ASRService objects under the transcription calls of two sessions.  Each
\* call runs in a worker thread of its own (asyncio.to_thread), so the steps of
\* two calls interleave; nothing in ASRService takes a lock.

\* how the preload of startup_event can end: the model and the processor are
\* loaded, the model load raised, or the processor load raised after the model
\* was assigned (the event catches the exception either way)
PreloadOutcomes == {"loaded", "model_failed", "processor_failed"}

LoadInit ==
    /\ SessionInit
    /\ triage_engine = "injected"
    /\ TriageIdle
    /\ MetricIdle
    /\ HostIdle
    /\ focus = 1
    /\ other = NULL
    /\ BatchIdle
    /\ startup = "pending"
    /\ model = [i \in Instances |-> "None"]
    /\ processor = [i \in Instances |-> "None"]
    /\ asr_service \in [Sessions -> {"shared", "None"}]
    /\ worker = [t \in Sessions |-> "idle"]
    /\ asr_out = [t \in Sessions |-> "none"]
    /\ calls = [t \in Sessions |-> 0]
    /\ load_count = [i \in Instances |-> 0]

\* main.py startup_event: asr_service._load_models() inside try/except
Preload(outcome) ==
    /\ startup = "pending"
    /\ startup' = "done"
    /\ model' = [model EXCEPT !["shared"] =
                     IF outcome = "model_failed" THEN "None" ELSE "loaded"]
    /\ processor' = [processor EXCEPT !["shared"] =
                         IF outcome = "loaded" THEN "loaded" ELSE "None"]
    /\ load_count' = [load_count EXCEPT !["shared"] =
                          IF outcome = "model_failed" THEN 0 ELSE 1]
    /\ UNCHANGED <<asr_service, worker, asr_out, calls>>

\* LiveCallSession._ensure_services_loaded of session t
EnsureServicesLoaded(t) ==
    asr_service' = [asr_service EXCEPT ![t] =
                        IF asr_service[t] = "None" THEN Private(t) ELSE asr_service[t]]

\* process_buffer of session t up to "1. ASR Transcription": the services are
\* ensured and _transcribe_audio is handed to a worker thread, which enters
\* transcribe_with_confidence
BeginTranscription(t) ==
    /\ startup = "done"
    /\ worker[t] = "idle"
    /\ calls[t] < MaxTranscriptions
    /\ EnsureServicesLoaded(t)
    /\ worker' = [worker EXCEPT ![t] = "load_models"]
    /\ calls' = [calls EXCEPT ![t] = calls[t] + 1]
    /\ UNCHANGED <<startup, model, processor, asr_out, load_count>>

\* ASRService._load_models, its first statement: return when self.model is set
LoadModelsEntered(t) ==
    /\ worker[t] = "load_models"
    /\ worker' = [worker EXCEPT ![t] =
                      IF model[asr_service[t]] # "None" THEN "transcribing"
                      ELSE "loading_model"]
    /\ UNCHANGED <<startup, model, processor, asr_service, asr_out, calls, load_count>>

\* _load_models: the Whisper model (and adapter) is read and assigned to
\* self.model, or the read raises and the exception leaves the call
LoadModel(t, ok) ==
    /\ worker[t] = "loading_model"
    /\ IF ok
       THEN /\ model' = [model EXCEPT ![asr_service[t]] = "loaded"]
            /\ load_count' = [load_count EXCEPT ![asr_service[t]] = @ + 1]
            /\ worker' = [worker EXCEPT ![t] = "loading_processor"]
            /\ UNCHANGED asr_out
       ELSE /\ worker' = [worker EXCEPT ![t] = "idle"]
            /\ asr_out' = [asr_out EXCEPT ![t] = "raised"]
            /\ UNCHANGED <<model, load_count>>
    /\ UNCHANGED <<startup, processor, asr_service, calls>>

\* _load_models: the processor is read and assigned to self.processor, or the
\* read raises
LoadProcessor(t, ok) ==
    /\ worker[t] = "loading_processor"
    /\ IF ok
       THEN /\ processor' = [processor EXCEPT ![asr_service[t]] = "loaded"]
            /\ worker' = [worker EXCEPT ![t] = "transcribing"]
            /\ UNCHANGED asr_out
       ELSE /\ worker' = [worker EXCEPT ![t] = "idle"]
            /\ asr_out' = [asr_out EXCEPT ![t] = "raised"]
            /\ UNCHANGED processor
    /\ UNCHANGED <<startup, model, asr_service, calls, load_count>>

\* transcribe_with_confidence after _load_models, on decodable audio: the call
\* self.processor(...) raises when self.processor is None, and the except branch
\* returns the failed-transcription result
TranscribeLoaded(t) ==
    /\ worker[t] = "transcribing"
    /\ worker' = [worker EXCEPT ![t] = "idle"]
    /\ asr_out' = [asr_out EXCEPT ![t] =
                       IF processor[asr_service[t]] = "None" THEN "failed"
                       ELSE "transcript"]
    /\ UNCHANGED <<startup, model, processor, asr_service, calls, load_count>>

LoadNext ==
    \/ \E outcome \in PreloadOutcomes :
        /\ Preload(outcome)
        /\ UNCHANGED <<sessionVars, pureVars, hostVars, focus, other, batchVars>>
    \/ \E t \in Sessions :
        /\ BeginTranscription(t)
        /\ UNCHANGED <<sessionVars, pureVars, hostVars, focus, other, batchVars>>
    \/ \E t \in Sessions :
        /\ LoadModelsEntered(t)
        /\ UNCHANGED <<sessionVars, pureVars, hostVars, focus, other, batchVars>>
    \/ \E t \in Sessions, ok \in BOOLEAN :
        /\ LoadModel(t, ok)
        /\ UNCHANGED <<sessionVars, pureVars, hostVars, focus, other, batchVars>>
    \/ \E t \in Sessions, ok \in BOOLEAN :
        /\ LoadProcessor(t, ok)
        /\ UNCHANGED <<sessionVars, pureVars, hostVars, focus, other, batchVars>>
    \/ \E t \in Sessions :
        /\ TranscribeLoaded(t)
        /\ UNCHANGED <<sessionVars, pureVars, hostVars, focus, other, batchVars>>

LoadSpec == LoadInit /\ [][LoadNext]_vars

----------------------------------------------------------------------------
\* The batch endpoint next to a streaming session: one audio input, for which
\* the providers return the same results whoever calls them

\* what the providers return for the audio: transcription results as in the
\* streaming runs and a four-character one, a distress score, a content score
BatchOutputs ==
    [asr : AsrResults \cup {[transcript |-> <<"F", "i", "r", "e">>, confidence |-> 33]},
     bio : [distress_score : DistressScores],
     nlp : [content_score : ContentScores \cup {10}]]

\* main.py analyze_audio on the results of its three provider calls: the
\* extractor is called on every transcript, the scores go to the matrix as they are
AnalyzeAudio(asr, nlp, bio) ==
    [transcript |-> asr.transcript,
     confidence |-> Frac(asr.confidence, 1),
     content_score |-> nlp.content_score,
     distress_score |-> Frac(bio.distress_score, 1),
     triage |-> GenerateDispatcherGuidance(Frac(asr.confidence, 1),
                                           Frac(bio.distress_score, 1),
                                           Frac(nlp.content_score, 1))]

\* the audio as the streaming client sends it: in one chunk, or voice and then
\* the silence that ends the utterance
BatchAudio == {Pcm(OverflowDuration, TRUE), Pcm(5, TRUE), Pcm(3, FALSE)}

BatchInit ==
    /\ SessionInit
    /\ triage_engine = "injected"
    /\ TriageIdle
    /\ MetricIdle
    /\ HostIdle
    /\ focus = 1
    /\ other = NULL
    /\ AsrIdle
    /\ outputs \in BatchOutputs
    /\ analyzed = NULL

\* POST /api/analyze with the audio
AnalyzeRequest ==
    /\ analyzed = NULL
    /\ analyzed' = AnalyzeAudio(outputs.asr, outputs.nlp, outputs.bio)
    /\ UNCHANGED <<sessionVars, pureVars, hostVars, focus, other, asrVars, outputs>>

\* the streaming session receives the audio and runs its cycle on the same
\* provider results
BatchNext ==
    \/ AnalyzeRequest
    \/ \E data \in BatchAudio :
        /\ completed = <<>>
        /\ ProcessAudioChunk(data)
        /\ UNCHANGED <<hostVars, pairVars>>
    \/ \E ok \in BOOLEAN :
        /\ AsrDone(outputs.asr @@ [raised |-> FALSE], ok)
        /\ UNCHANGED <<hostVars, pairVars>>
    \/ \E ok \in BOOLEAN :
        /\ BioDone(outputs.bio @@ [raised |-> FALSE], ok)
        /\ UNCHANGED <<hostVars, pairVars>>
    \/ \E ok \in BOOLEAN :
        /\ NlpDone(outputs.nlp @@ [raised |-> FALSE], ok)
        /\ UNCHANGED <<hostVars, pairVars>>

BatchSpec == BatchInit /\ [][BatchNext]_vars

----------------------------------------------------------------------------
\* Claims about the decision matrix (checked under TriageSpec)

\* the truth table: <<queue, priority_level, flag_audio_review>> of a row
TableRow(high_confidence, high_content, high_concern) ==
    CASE ~high_confidence /\ ~high_content /\ high_concern -> <<"Q1-IMMEDIATE", 1, TRUE>>
      [] ~high_confidence /\ high_content /\ ~high_concern -> <<"Q2-ELEVATED", 2, TRUE>>
      [] ~high_confidence /\ high_content /\ high_concern -> <<"Q1-IMMEDIATE", 1, TRUE>>
      [] high_confidence /\ ~high_content /\ high_concern -> <<"Q3-MONITOR", 3, FALSE>>
      [] high_confidence /\ high_content /\ ~high_concern -> <<"Q2-ELEVATED", 2, FALSE>>
      [] high_confidence /\ high_content /\ high_concern -> <<"Q1-IMMEDIATE", 1, FALSE>>
      [] ~high_confidence /\ ~high_content /\ ~high_concern -> <<"Q5-REVIEW", 5, TRUE>>
      [] high_confidence /\ ~high_content /\ ~high_concern -> <<"Q5-ROUTINE", 5, FALSE>>

\* a score f compared with k hundredths
AtLeast(f, k) == f[1] >= k * f[2]
Above(f, k) == f[1] > k * f[2]
Exactly(f, k) == f[1] = k * f[2]

BranchTaken(decision) ==
    CASE decision.reasoning = "case 1: hero scenario" -> <<FALSE, FALSE, TRUE>>
      [] decision.reasoning = "case 2: serious, unclear, calm" -> <<FALSE, TRUE, FALSE>>
      [] decision.reasoning = "case 3: critical, unclear" -> <<FALSE, TRUE, TRUE>>
      [] decision.reasoning = "case 4: clear, distressed" -> <<TRUE, FALSE, TRUE>>
      [] decision.reasoning = "case 5: serious, clear, calm" -> <<TRUE, TRUE, FALSE>>
      [] decision.reasoning = "case 6: maximum urgency" -> <<TRUE, TRUE, TRUE>>
      [] decision.reasoning = "case 7: unclear, no urgency" -> <<FALSE, FALSE, FALSE>>
      [] decision.reasoning = "case 8: routine" -> <<TRUE, FALSE, FALSE>>

C3_EscalationIffImmediate ==
    t_out # NULL =>
        /\ {"dispatcher_action", "escalation_required"} \subseteq DOMAIN t_out
        /\ t_out.escalation_required <=> (t_out.queue = "Q1-IMMEDIATE")

\* a decision outside Q1 that carries both fields and does not escalate
C3_Witness ==
    /\ t_out # NULL
    /\ t_out.queue = "Q2-ELEVATED"
    /\ ~t_out.escalation_required
    /\ t_out.dispatcher_action = "high priority"

\* C37: in every decision flag_audio_review is true exactly when the confidence
\* is below 0.70, whatever the content score and the distress score are
C37_FlagIffLowConfidence ==
    t_out # NULL =>
        (t_out.flag_audio_review <=> ~AtLeast(t_in.confidence, 70))

\* a decision just below the confidence threshold, with urgent content and a
\* distressed caller, that asks for the audio review
C37_Witness ==
    /\ t_out # NULL
    /\ t_in.confidence = Frac(139, 2)
    /\ Above(t_in.content_score, 40)
    /\ Above(t_in.distress_score, 50)
    /\ t_out.flag_audio_review

\* the priority_level the matrix gives to three scores
PriorityLevel(confidence, distress_score, content) ==
    PrioritizeCall(confidence, distress_score, content).priority_level

\* C38: with the other two inputs fixed, raising concern from Low to High,
\* raising content from Low to High, or lowering confidence from High to Low
\* never gives a larger priority_level number than the decision made
C38_MonotoneInUrgency ==
    t_out # NULL =>
        \A s \in Scores :
            /\ (~Above(t_in.distress_score, 50) /\ Above(s, 50)) =>
                   PriorityLevel(t_in.confidence, s, t_in.content_score)
                       <= t_out.priority_level
            /\ (~Above(t_in.content_score, 40) /\ Above(s, 40)) =>
                   PriorityLevel(t_in.confidence, t_in.distress_score, s)
                       <= t_out.priority_level
            /\ (AtLeast(t_in.confidence, 70) /\ ~AtLeast(s, 70)) =>
                   PriorityLevel(s, t_in.distress_score, t_in.content_score)
                       <= t_out.priority_level

\* a clear, distressed call without urgent content is decided at level 3, and
\* the same call with a confidence below the threshold is more urgent
C38_Witness ==
    /\ t_out # NULL
    /\ t_out.priority_level = 3
    /\ AtLeast(t_in.confidence, 70)
    /\ PriorityLevel(Frac(69, 1), t_in.distress_score, t_in.content_score) = 1

----------------------------------------------------------------------------
\* Claims about the weighted averages (checked under MetricSpec)

\* the sum of f over the samples recorded so far
RECURSIVE SumOver(_, _)
SumOver(f(_), k) == IF k = 0 THEN 0 ELSE f(wm_samples[k]) + SumOver(f, k - 1)

TotalWeight == LET w(sample) == sample[2] IN SumOver(w, Len(wm_samples))
TotalWeighted == LET vw(sample) == sample[1] * sample[2] IN SumOver(vw, Len(wm_samples))

\* the fraction f is n / d
IsQuotient(f, n, d) == f[2] > 0 /\ f[1] * d = n * f[2]

\* C5: the average is sum(value*weight)/sum(weight), it is 0 with no samples, a
\* sample of weight 0 leaves it unchanged, and confidence and distress are averaged
\* by the same formula
C5_WeightedAverage ==
    /\ [](/\ TotalWeight > 0 => IsQuotient(wm_avg.confidence, TotalWeighted, TotalWeight)
          /\ wm_samples = <<>> => wm_avg.confidence = <<0, 1>>
          /\ wm_avg.distress = wm_avg.confidence)
    /\ [][(Len(wm_samples') = Len(wm_samples) + 1 /\ wm_samples'[Len(wm_samples')][2] = 0)
            => wm_avg' = wm_avg]_vars

\* samples of different weights have been averaged and a sample of weight 0 added
C5_Witness ==
    /\ wm_samples = <<<<20, 1>>, <<90, 9>>, <<0, 0>>>>
    /\ wm_avg.confidence = <<83, 1>>
    /\ wm_avg.distress = <<83, 1>>

----------------------------------------------------------------------------
\* Claims about the session (checked under Spec)

\* the silence at the end of the buffered chunks: the ticks after the last loud one
RECURSIVE TrailingSilence(_)
TrailingSilence(chunks) ==
    IF chunks = <<>> \/ chunks[Len(chunks)].loud THEN 0
    ELSE chunks[Len(chunks)].n + TrailingSilence(SubSeq(chunks, 1, Len(chunks) - 1))

RECURSIVE Ticks(_)
Ticks(chunks) ==
    IF chunks = <<>> THEN 0
    ELSE chunks[Len(chunks)].n + Ticks(SubSeq(chunks, 1, Len(chunks) - 1))

VoiceHeard(chunks) == \E i \in 1..Len(chunks) : chunks[i].loud

\* the trigger as the claim states it, on the chunks added since the last clear
Trigger(chunks) ==
    /\ chunks # <<>>
    /\ \/ VoiceHeard(chunks) /\ TrailingSilence(chunks) >= 3
       \/ Ticks(chunks) >= 60

\* C4: should_process() is true exactly when the buffer is not empty and either a
\* chunk was loud and 1.5 s of silence followed it, or 30 s are buffered
C4_ShouldProcessIff == ShouldProcess(CurrentBuffer) <=> Trigger(buffer)

\* a cycle was triggered by the silence after a loud chunk, well below the cap
C4_Witness ==
    /\ pc = "asr"
    /\ caller = "chunk"
    /\ VoiceHeard(buffer)
    /\ TrailingSilence(buffer) = 3
    /\ total_duration < OverflowDuration

\* the sum of f over the cycles completed so far
RECURSIVE SumCompleted(_, _)
SumCompleted(f(_), k) == IF k = 0 THEN 0 ELSE f(completed[k]) + SumCompleted(f, k - 1)

CompletedDuration ==
    LET d(cycle) == cycle.duration IN SumCompleted(d, Len(completed))
CompletedConfidence ==
    LET c(cycle) == cycle.confidence * cycle.duration IN SumCompleted(c, Len(completed))
CompletedDistress ==
    LET c(cycle) == cycle.distress * cycle.duration IN SumCompleted(c, Len(completed))

\* C6: after successful cycles only, the running confidence and the running distress
\* are the duration-weighted means of what the providers returned in those cycles,
\* and each cycle has put exactly one sample into each aggregator
C6_RunningMeansOverCycles ==
    (pc = "idle" /\ cycles_started = Len(completed)) =>
        /\ Len(confidence_scores) = Len(completed)
        /\ Len(distress_scores) = Len(completed)
        /\ completed # <<>> =>
            /\ IsQuotient(latest_confidence, CompletedConfidence, CompletedDuration)
            /\ IsQuotient(latest_distress, CompletedDistress, CompletedDuration)

\* a step in which finalize is called
FinalizeCalled ==
    /\ pc = "idle"
    /\ last_call'.op = "finalize"
    /\ Len(returned') = Len(returned) + 1 \/ pc' # "idle"

\* C7: a finalize called right after a finalize is a no-op: no cycle, no second
\* write, the same final analysis, one persisted record
C7_SecondFinalizeNoOp ==
    [][(FinalizeCalled /\ last_call.op = "finalize" /\ returned # <<>>) =>
        /\ pc' = "idle"
        /\ cycles_started' = cycles_started
        /\ db_attempts' = db_attempts
        /\ db' = db
        /\ returned'[Len(returned')] = returned[Len(returned)]]_vars

C9_FinalizeProcessesShortCall ==
    [][(FinalizeCalled /\ completed = <<>> /\ total_duration > 4) =>
        /\ cycles_started' = cycles_started + 1
        /\ db_attempts' = db_attempts]_vars

\* a step in which a provider call or the decision of the running cycle raises
CycleFailed == pc # "idle" /\ step_raised' # "none"

Count(log, type) == Cardinality({i \in 1..Len(log) : log[i].type = type})

\* C10: a cycle in which a step raises emits one error update and no
\* processing_complete, leaves the buffer as it was, keeps the session active, and
\* the next chunk is appended and evaluated as usual
C10_FailedCycleKeepsBuffer ==
    [][/\ CycleFailed =>
            /\ Count(updates', "error") = 1
            /\ Count(updates', "processing_complete") = 0
            /\ updates' = Append(updates, updates'[Len(updates')])
            /\ buffer' = audio
            /\ UNCHANGED <<buffer, total_duration, last_voice_time, is_active>>
            /\ pc' = "idle"
       /\ (pc = "idle" /\ step_raised # "none" /\ chunk_count' = chunk_count + 1
             /\ last_call'.data.kind = "pcm") =>
            /\ buffer' = Append(buffer, [id |-> chunk_count', n |-> last_call'.data.n,
                                         loud |-> last_call'.data.loud])
            /\ (pc' = "asr") <=> Trigger(buffer')]_vars

\* the decision step of a cycle raised, the buffer kept its audio and the session
\* stayed active; the next chunk was appended to that audio
C10_Witness ==
    /\ pc = "idle"
    /\ step_raised = "triage"
    /\ is_active
    /\ Len(buffer) = 3
    /\ last_call.op = "process_audio_chunk"
    /\ updates[Len(updates)].type = "buffer_update"

\* a step in which process_audio_chunk is called
ChunkCalled ==
    /\ pc = "idle"
    /\ last_call'.op = "process_audio_chunk"
    /\ chunk_count' # chunk_count \/ updates' # updates \/ buffer' # buffer

\* C15: the call of process_audio_chunk that brings the buffered audio to the cap of
\* 30 s, or finds it there, starts a processing cycle, whether or not any chunk was
\* silent
C15_CycleStartsAtCap ==
    [][(ChunkCalled /\ total_duration' >= 60) =>
        /\ pc' = "asr"
        /\ cycles_started' = cycles_started + 1
        /\ audio' = buffer']_vars

\* two voiced chunks reached the cap together and the cycle has started
C15_Witness ==
    /\ pc = "asr"
    /\ caller = "chunk"
    /\ Len(buffer) = 2
    /\ \A i \in 1..Len(buffer) : buffer[i].loud
    /\ buffer[1].n < OverflowDuration
    /\ total_duration >= OverflowDuration

\* the rows of live_calls with a call_id
RowsOf(id) == {i \in 1..Len(db) : db[i].call_id = id}

C18_MalformedChunkNoOp ==
    [][(ChunkCalled /\ last_call'.data.kind \in {"empty", "undecodable"}) =>
        /\ Count(updates', "error") = 0
        /\ pc' = "idle"
        /\ UNCHANGED <<buffer, total_duration, last_voice_time, chunk_count,
                       confidence_scores, distress_scores, full_transcript,
                       current_triage>>]_vars

\* a step in which the running cycle reaches clear()
CycleCompleted == pc # "idle" /\ pc' = "idle" /\ step_raised' = "none"

\* C19: no send raises into the cycle, and a cycle run on a closed websocket ends
\* as it does on an open one: the distress sample of its snapshot is recorded, the
\* decision of the new averages is stored and the buffer is cleared
C19_ClosedTransportHarmless ==
    [][/\ (pc # "idle" /\ pc' = "idle") => step_raised' # "send"
       /\ CycleCompleted =>
            /\ buffer' = <<>> /\ total_duration' = 0 /\ last_voice_time' = 0
            /\ Len(distress_scores') = Len(distress_scores) + 1
                    \/ (pc = "nlp" /\ distress_scores' = distress_scores)
            /\ distress_scores'[Len(distress_scores')][2] = Ticks(audio)
            /\ Len(completed') = Len(completed) + 1
            /\ current_triage' = GenerateDispatcherGuidance(
                    latest_confidence', latest_distress', <<content_score', 1>>)
            /\ updates'[Len(updates')].type = "processing_complete"]_vars

\* a cycle has completed on a closed websocket
C19_Witness ==
    /\ ~ws_connected
    /\ pc = "idle"
    /\ updates # <<>>
    /\ updates[Len(updates)].type = "processing_complete"
    /\ updates[Len(updates)].call_duration = OverflowDuration
    /\ current_triage # NULL
    /\ buffer = <<>>
    /\ Len(completed) = 1

\* C20: a call of process_audio_chunk with a chunk that is not empty adds one to the
\* chunk counter and sends one buffer_update, first, with the duration of the buffer
\* after the append and the new counter, whether or not a cycle is started
C20_BufferUpdatePerChunk ==
    [][(ChunkCalled /\ last_call'.data.kind # "empty") =>
        /\ chunk_count' = chunk_count + 1
        /\ Count(updates', "buffer_update") = 1
        /\ updates'[1].type = "buffer_update"
        /\ updates'[1].duration = Ticks(buffer')
        /\ updates'[1].chunks_received = chunk_count'
        /\ last_call'.data.kind = "pcm" => Ticks(buffer') = Ticks(buffer) + last_call'.data.n
        /\ Len(updates') = IF pc' = "asr" THEN 2 ELSE 1]_vars

\* the second chunk has sent its buffer_update and started a cycle
C20_Witness ==
    /\ pc = "asr"
    /\ chunk_count = 2
    /\ Len(buffer) = 2
    /\ updates = <<BufferUpdate(8, 2), ProcessingStarted(8)>>

\* the characters of a text that are not whitespace
RECURSIVE NonWhitespace(_)
NonWhitespace(s) ==
    IF s = <<>> THEN 0
    ELSE (IF IsSpace(Head(s)) THEN 0 ELSE 1) + NonWhitespace(Tail(s))

\* a step in which the bio-acoustic call of the running cycle returns
BioReturned == pc = "bio" /\ pc' # "bio" /\ step_raised' = "none"

\* C26: the cycle calls the entity extractor exactly when the transcript has at
\* least 5 characters that are not whitespace; the score the extractor returns is
\* stored, and a cycle that does not call it stores 0
C26_ExtractionIffFiveCharacters ==
    [][/\ BioReturned =>
            /\ (pc' = "nlp") <=> (NonWhitespace(full_transcript) >= 5)
            /\ pc' = "idle" => content_score' = 0
       /\ (pc = "nlp" /\ pc' = "idle" /\ step_raised' = "none") =>
            content_score' \in ContentScores]_vars

\* the length of a text from its first to its last character that is not whitespace
TrimmedLength(s) ==
    LET inked == {i \in 1..Len(s) : ~IsSpace(s[i])}
    IN  IF inked = {} THEN 0
        ELSE (CHOOSE i \in inked : \A j \in inked : j <= i)
             - (CHOOSE i \in inked : \A j \in inked : i <= j) + 1

\* C26, amended: the cycle calls the entity extractor exactly when the transcript,
\* without its leading and trailing whitespace, is at least 5 characters long, the
\* spaces inside it counted; the score the extractor returns is stored, and a cycle
\* that does not call it stores 0
C26_ExtractionIffFiveLong ==
    [][/\ BioReturned =>
            /\ (pc' = "nlp") <=> (TrimmedLength(full_transcript) >= 5)
            /\ pc' = "idle" => content_score' = 0
       /\ (pc = "nlp" /\ pc' = "idle" /\ step_raised' = "none") =>
            content_score' \in ContentScores]_vars

\* the extractor is being called on two short fragments joined by a space
C26_Witness ==
    /\ pc = "nlp"
    /\ full_transcript = <<"a", "a", " ", "a", "a">>
    /\ NonWhitespace(full_transcript) < 5

\* C27: total_duration is the length of the buffered audio and last_voice_time lies
\* between 0 and it; the buffered audio shrinks only by clear(), which leaves no
\* audio, duration 0 and last_voice_time 0; a chunk not above the energy threshold
\* leaves last_voice_time as it was and a chunk above it sets it to the new duration
C27_BufferInvariant ==
    /\ [](/\ total_duration = Ticks(buffer)
          /\ 0 <= last_voice_time
          /\ last_voice_time <= total_duration)
    /\ [][/\ Ticks(buffer') < Ticks(buffer) => CycleCompleted
          /\ \A i \in 1..Len(buffer) :
                buffer' = <<>> \/ (i <= Len(buffer') /\ buffer'[i] = buffer[i])
          /\ CycleCompleted =>
                (buffer' = <<>> /\ total_duration' = 0 /\ last_voice_time' = 0)
          /\ (ChunkCalled /\ last_call'.data.kind = "pcm") =>
                /\ total_duration' = total_duration + last_call'.data.n
                /\ last_voice_time' = IF last_call'.data.loud THEN total_duration'
                                      ELSE last_voice_time]_vars

\* a quiet chunk after a voiced one has left last_voice_time behind the duration
C27_Witness ==
    /\ pc = "idle"
    /\ Len(buffer) = 2
    /\ buffer[1].loud /\ ~buffer[2].loud
    /\ last_voice_time = buffer[1].n
    /\ total_duration = buffer[1].n + buffer[2].n
    /\ Len(completed) = 1

\* C28: whenever no cycle is in flight, less than 30 s of audio are buffered
C28_BelowCapBetweenChunks == pc = "idle" => total_duration < 60

\* C28, amended: whenever no cycle is in flight, less than 30 s of audio are buffered
\* unless the last cycle failed and so kept its audio
C28_BelowCapUnlessFailed ==
    (pc = "idle" /\ step_raised = "none") => total_duration < 60

\* process_audio_chunk has returned from a failed cycle with the cap reached
C28_Witness ==
    /\ pc = "idle"
    /\ last_call.op = "process_audio_chunk"
    /\ step_raised = "asr"
    /\ total_duration >= OverflowDuration
    /\ updates[Len(updates)].type = "error"

\* C29: is_active is true from construction until finalize is called; the call makes
\* it false before any final cycle, write or return, nothing else makes it false,
\* and it is never true again, whatever is called afterwards
C29_ActiveUntilFinalize ==
    /\ [](/\ last_call.op = "none" => is_active
          /\ is_active => (db_attempts = 0 /\ returned = <<>> /\ caller # "finalize"))
    /\ [][/\ FinalizeCalled => ~is_active'
          /\ (is_active /\ ~is_active') => FinalizeCalled
          /\ ~is_active => ~is_active']_vars

\* after finalize the session has taken another chunk and runs a cycle, inactive
C29_Witness ==
    /\ ~is_active
    /\ Len(returned) = 1
    /\ last_call.op = "process_audio_chunk"
    /\ pc = "bio"

\* a text without its leading and trailing whitespace
Trimmed(s) ==
    LET inked == {i \in 1..Len(s) : ~IsSpace(s[i])}
    IN  IF inked = {} THEN <<>>
        ELSE SubSeq(s, CHOOSE i \in inked : \A j \in inked : i <= j,
                       CHOOSE i \in inked : \A j \in inked : j <= i)

IsPrefix(s, t) == Len(s) <= Len(t) /\ SubSeq(t, 1, Len(s)) = s

\* a step in which the transcription call of the running cycle returns
AsrReturned == pc = "asr" /\ pc' = "bio"

\* C30: the transcript only grows at its end, and only when the transcription
\* returns: by nothing for a blank fragment, by the trimmed fragment when the
\* transcript is empty, by one space and the trimmed fragment otherwise; so it never
\* starts or ends with a space
C30_TranscriptAppendOnly ==
    /\ [](full_transcript # <<>> =>
            (~IsSpace(full_transcript[1]) /\ ~IsSpace(full_transcript[Len(full_transcript)])))
    /\ [][/\ IsPrefix(full_transcript, full_transcript')
          /\ full_transcript' # full_transcript => AsrReturned
          /\ AsrReturned =>
                LET fragment == Trimmed(asr_result'.transcript)
                    grown == Len(full_transcript') - Len(full_transcript)
                IN  /\ fragment = <<>> => grown = 0
                    /\ (fragment # <<>> /\ full_transcript = <<>>) =>
                            full_transcript' = fragment
                    /\ (fragment # <<>> /\ full_transcript # <<>>) =>
                            /\ grown = Len(fragment) + 1
                            /\ full_transcript'[Len(full_transcript) + 1] = " "
                            /\ SubSeq(full_transcript', Len(full_transcript) + 2,
                                      Len(full_transcript')) = fragment]_vars

\* two fragments, the second returned with a trailing space, joined by one space
C30_Witness ==
    /\ full_transcript = <<"a", "a", " ", "a", "a", "a", "a", "a">>
    /\ Len(confidence_scores) = 2
    /\ pc = "idle"

\* the audio the session has accepted so far, in ticks: what the completed cycles
\* cleared and what the buffer holds
AcceptedTicks == CompletedDuration + Ticks(buffer)

\* C22: no accepted audio contributes twice.  Every sample of an aggregator carries
\* the duration of the audio it was computed from (and a fragment is appended to the
\* transcript exactly when a confidence sample is), so the durations recorded in each
\* aggregator add up to no more than the audio accepted
C22_ContributesAtMostOnce ==
    /\ SumWeights(confidence_scores) <= AcceptedTicks
    /\ SumWeights(distress_scores) <= AcceptedTicks

\* C33: whenever no cycle is in flight the current decision is null exactly when
\* no cycle has completed, and a decision is the one the matrix gives for the
\* session's current weighted-average confidence, content score and
\* weighted-average distress, after successful cycles, failed cycles and finalize
C33_DecisionOfCurrentAverages ==
    pc = "idle" =>
        /\ (current_triage = NULL) <=> (completed = <<>>)
        /\ current_triage # NULL =>
               current_triage =
                   GenerateDispatcherGuidance(
                       GetWeightedAverageConfidence(confidence_scores),
                       GetWeightedAverageDistress(distress_scores),
                       Frac(content_score, 1))

\* C34: a cycle that fails at any step leaves the transcript, both aggregators,
\* latest_confidence, latest_distress, the content score and the current decision
\* exactly as they were when the cycle began
C34_CycleAtomic ==
    [][CycleFailed => metricVars' = at_entry]_vars

\* C35: once finalize has returned, a call of process_audio_chunk changes nothing:
\* the buffer, the chunk counter, the aggregators, the transcript and the decision
\* stay as finalize left them, and no cycle is started
C35_InertAfterFinalize ==
    [][(returned # <<>> /\ last_call'.op = "process_audio_chunk") =>
          /\ UNCHANGED <<bufferVars, chunk_count, metricVars>>
          /\ cycles_started' = cycles_started]_vars

\* a finalize call that returns an analysis and adds a row to live_calls
FinalizePersisted ==
    /\ Len(returned') = Len(returned) + 1
    /\ Len(db') = Len(db) + 1

\* C36: the row a finalize call persists agrees with the analysis the same call
\* returns in call_id, transcript, weighted-average confidence and distress,
\* content score, chunk count and decision payload; its queue, priority_level,
\* flag_audio_review and escalation_required are those of the decision, and without
\* a decision the queue is null (written "None") and both flags are false
C36_RecordAgreesWithAnalysis ==
    [][FinalizePersisted =>
          LET row == db'[Len(db')]
              analysis == returned'[Len(returned')]
          IN  /\ row.call_id = analysis.call_id
              /\ row.transcript = analysis.transcript
              /\ row.confidence_score = analysis.confidence
              /\ row.distress_score = analysis.distress_score
              /\ row.content_score = analysis.content_score
              /\ row.chunks_processed = analysis.chunks_processed
              /\ row.triage_data = analysis.triage
              /\ IF analysis.triage = NULL
                 THEN /\ row.triage_queue = "None"
                      /\ ~row.flag_audio_review
                      /\ ~row.escalation_required
                 ELSE /\ row.triage_queue = analysis.triage.queue
                      /\ row.priority_level = analysis.triage.priority_level
                      /\ row.flag_audio_review = analysis.triage.flag_audio_review
                      /\ row.escalation_required = analysis.triage.escalation_required]_vars

\* a call of two cycles of different lengths was finalized: its row and its
\* analysis carry the same decision and the same weighted averages
C36_Witness ==
    /\ Len(db) = 1
    /\ Len(returned) = 1
    /\ Len(confidence_scores) = 2
    /\ confidence_scores[1] # confidence_scores[2]
    /\ db[1].triage_data # NULL
    /\ db[1].triage_queue = returned[1].triage.queue
    /\ db[1].confidence_score = returned[1].confidence

----------------------------------------------------------------------------
\* Claims about two sessions (checked under PairSpec)

OtherCallId == IF focus = 1 THEN "LIVE-2" ELSE "LIVE-1"

\* the rows of a call_id in a table
Records(rows, id) == {rows[i] : i \in {j \in 1..Len(rows) : rows[j].call_id = id}}

\* C17: a step of one session (a chunk, a step of a cycle, a failed cycle, finalize,
\* a failed write) leaves every field of the other session and the other session's
\* persisted record as they were
C17_SessionsIndependent ==
    [][focus' = focus =>
        /\ other' = other
        /\ Records(db', OtherCallId) = Records(db, OtherCallId)]_vars

\* one session has persisted its record while the other one, with a cycle that
\* failed behind it, writes its own
C17_Witness ==
    /\ focus = 2
    /\ Len(db) = 2
    /\ db[1].call_id = "LIVE-1"
    /\ db[2].call_id = "LIVE-2"
    /\ db[1].triage_queue # "None"
    /\ step_raised = "bio"
    /\ other.current_triage # NULL
    /\ current_triage = NULL

----------------------------------------------------------------------------
\* Claims about the handler (checked under HandlerSpec)

\* the final analysis of the session as its fields stand
AnalysisOf ==
    [call_id |-> CallId,
     transcript |-> full_transcript,
     confidence |-> GetWeightedAverageConfidence(confidence_scores),
     content_score |-> content_score,
     distress_score |-> GetWeightedAverageDistress(distress_scores),
     triage |-> current_triage,
     chunks_processed |-> chunk_count]

\* C11: finalize returns once the write was attempted, whether or not the write
\* failed what it returns is the analysis of the session's fields, and after a
\* failed write the handler still sends call_ended with that analysis
C11_PersistenceFailureHarmless ==
    /\ db_attempts > 0 => returned # <<>>
    /\ returned # <<>> => returned[1] = AnalysisOf
    /\ (returned # <<>> /\ db = <<>>) =>
        /\ handler = "ending" => ENABLED HandlerCallEnded
        /\ handler = "ended" =>
            /\ stream[Len(stream)].type = "call_ended"
            /\ updates = <<CallEnded(AnalysisOf)>>

\* the write failed after a completed cycle and call_ended was sent
C11_Witness ==
    /\ handler = "ended"
    /\ db = <<>>
    /\ db_attempts = 1
    /\ current_triage # NULL
    /\ stream[Len(stream)].type = "call_ended"

\* the updates of one type in the stream
Sent(type) == {i \in 1..Len(stream) : stream[i].type = type}

C13_OneCycleAtATime ==
    [][pc # "idle" =>
        /\ cycles_started' = cycles_started
        /\ caller = "chunk" =>
            /\ is_active' = is_active
            /\ db_attempts' = db_attempts
            /\ returned' = returned]_vars

\* a cycle is in flight, the next chunk has arrived and the client has closed
C13_Witness ==
    /\ handler = "receiving"
    /\ pc = "bio"
    /\ caller = "chunk"
    /\ inbox # <<>>
    /\ Head(inbox).kind = "pcm"
    /\ ~ws_connected

\* the buffer_update entries among the first i of the stream
BufferUpdatesUpTo(i) == Cardinality({j \in 1..i : stream[j].type = "buffer_update"})

\* an update that settles a cycle
Settles(entry) ==
    \/ entry.type = "processing_complete"
    \/ entry.type = "error" /\ entry.origin = "session"

\* C14: connected is first and call_ended last; the k-th buffer_update carries k;
\* processing_started follows the buffer_update of its chunk directly, and what
\* settles the cycle follows processing_started directly, so every update of chunk
\* k precedes buffer_update(k+1)
C14_UpdatesOrdered ==
    \A i \in 1..Len(stream) :
        /\ stream[i].type = "connected" <=> i = 1
        /\ stream[i].type = "call_ended" => i = Len(stream)
        /\ stream[i].type = "buffer_update" => stream[i].chunks = BufferUpdatesUpTo(i)
        /\ stream[i].type = "processing_started" =>
            /\ stream[i - 1].type = "buffer_update"
            /\ stream[i - 1].chunks = stream[i].chunks
            /\ i < Len(stream) =>
                (Settles(stream[i + 1]) \/ stream[i + 1].type = "call_ended")
        /\ Settles(stream[i]) =>
            /\ stream[i - 1].type = "processing_started"
            /\ stream[i - 1].chunks = stream[i].chunks
        /\ stream[i].origin = "session" => stream[i].chunks = BufferUpdatesUpTo(i)

\* two chunks, a cycle on the second after an unreadable frame, then the end
C14_Witness ==
    /\ handler = "ended"
    /\ Len(stream) = 7
    /\ stream[2].type = "buffer_update"
    /\ stream[3].type = "error" /\ stream[3].origin = "handler"
    /\ stream[4].type = "buffer_update" /\ stream[4].chunks = 2
    /\ stream[5].type = "processing_started"
    /\ stream[6].type = "processing_complete"
    /\ stream[7].type = "call_ended"


----------------------------------------------------------------------------
\* Claims about provider failures (checked under ProviderSpec)

\* the steps in which a provider's model invocation has failed: the call raised, or
\* the provider caught the failure and its fallback result came back
AsrInvocationFailed ==
    /\ pc = "asr"
    /\ pc' # "asr"
    /\ step_raised' = "asr" \/ asr_result'.transcript = ErrorTranscript
BioInvocationFailed ==
    /\ pc = "bio"
    /\ pc' # "bio"
    /\ \/ step_raised' = "bio"
       \/ /\ Len(distress_scores') = Len(distress_scores) + 1
          /\ distress_scores'[Len(distress_scores')][1] = ZeroFeatures.distress_score
NlpInvocationFailed ==
    /\ pc = "nlp"
    /\ pc' # "nlp"
    /\ step_raised' = "nlp" \/ (step_raised' = "none" /\ content_score' = 0)

\* C21: a failed model invocation of the transcription provider ends the cycle with
\* an error update, no text appended, no confidence sample and the buffer kept; a
\* failed bio-acoustic analysis likewise, with no distress sample; a failed
\* extraction likewise
C21_ProviderFailureSurfaces ==
    [][/\ AsrInvocationFailed =>
            /\ pc' = "idle"
            /\ Count(updates', "error") = 1
            /\ UNCHANGED <<full_transcript, confidence_scores, bufferVars>>
       /\ BioInvocationFailed =>
            /\ pc' = "idle"
            /\ Count(updates', "error") = 1
            /\ UNCHANGED <<distress_scores, bufferVars>>
       /\ NlpInvocationFailed =>
            /\ pc' = "idle"
            /\ Count(updates', "error") = 1
            /\ UNCHANGED bufferVars]_vars

----------------------------------------------------------------------------
\* More claims about the handler (checked under HandlerSpec)

\* a step in which the running cycle sends processing_complete
CompleteSent ==
    /\ pc # "idle"
    /\ Count(Added(updates, updates'), "processing_complete") = 1

\* a step that empties a buffer that held audio
Emptied == buffer # <<>> /\ buffer' = <<>>

\* C23: while a cycle is in flight the buffer holds the snapshot and nothing else, the
\* chunks that arrive wait outside it; the cycle that sends processing_complete, with
\* the duration the buffer had, then empties the buffer of that snapshot, once, and
\* nothing else empties it: not a failed cycle, not a chunk, not finalize
C23_ClearExactlySnapshot ==
    [][/\ pc # "idle" => buffer = audio
       /\ CompleteSent =>
            /\ buffer = audio
            /\ updates'[Len(updates')].call_duration = Ticks(audio)
            /\ buffer' = <<>> /\ total_duration' = 0 /\ last_voice_time' = 0
            /\ Len(completed') = Len(completed) + 1
            /\ inbox' = inbox
       /\ Emptied => CompleteSent
       /\ CycleFailed => (buffer' = buffer /\ buffer' # <<>>)]_vars

\* a cycle has cleared its snapshot while the next chunk was waiting to be received
C23_Witness ==
    /\ handler = "receiving"
    /\ pc = "idle"
    /\ Len(completed) = 1
    /\ buffer = <<>>
    /\ updates[Len(updates)].type = "processing_complete"
    /\ updates[Len(updates)].call_duration = OverflowDuration
    /\ inbox # <<>>
    /\ Head(inbox).kind = "pcm"

\* C24: a chunk that arrives while the provider calls of a cycle are outstanding is
\* taken into the buffer, and its buffer_update sent, without waiting for the cycle
C24_ChunksAcceptedDuringCycle ==
    (/\ handler = "receiving"
     /\ pc # "idle"
     /\ inbox # <<>>
     /\ Head(inbox).kind = "pcm") => ENABLED HandlerChunk

----------------------------------------------------------------------------
\* Claims about the end of the handler (checked under TeardownSpec)

\* finalize has run and the write of the call's record was attempted
Finalized == ~is_active /\ db_attempts > 0 /\ returned # <<>>

\* C25: once the transport has closed, or receive_bytes has started to fail, the
\* handler leaves its loop, finalize runs and the write is attempted
C25_TeardownReachesFinalize ==
    (~ws_connected \/ handler \in {"failing", "reporting"}) ~> Finalized

\* the same from a closed transport alone
TeardownAfterClose == ~ws_connected ~> Finalized

----------------------------------------------------------------------------
\* Claims about the ASR objects (checked under LoadSpec)

\* C31: the Whisper model of the shared ASRService is loaded at most once in the
\* process, also when the first transcription calls of several sessions run in
\* worker threads at the same time, and a session that was given the shared
\* object never replaces it by an object of its own
C31_LoadedOnceNoPrivateCopies ==
    [][/\ load_count'["shared"] <= 1
       /\ \A t \in Sessions :
              asr_service[t] = "shared" => asr_service'[t] = "shared"]_vars

\* C39: while one session's worker is between the assignment of self.model and
\* the assignment of self.processor, no other session's transcription call on the
\* same object goes on with self.processor unset (and so returns the
\* failed-transcription result)
C39_NoPartialProvider ==
    \A t \in Sessions :
        (/\ worker[t] = "transcribing"
         /\ \E u \in Sessions \ {t} :
                /\ asr_service[u] = asr_service[t]
                /\ worker[u] = "loading_processor") =>
            processor[asr_service[t]] # "None"

----------------------------------------------------------------------------
\* Claims about the batch endpoint (checked under BatchSpec)

\* C32: for the same provider results on one audio input, what analyze_audio
\* returns equals the state of a fresh streaming session after exactly one
\* successful cycle over that audio: the same decision, confidence, content score
\* and distress
C32_BatchEqualsStreaming ==
    (analyzed # NULL /\ pc = "idle" /\ cycles_started = 1 /\ Len(completed) = 1) =>
        /\ analyzed.triage = current_triage
        /\ analyzed.confidence = latest_confidence
        /\ analyzed.content_score = content_score
        /\ analyzed.distress_score = latest_distress
====
